---- MODULE Spec2Model ----
(***************************************************************************)
(* HidroAlerta-SE: the update cycle of server.js, the alert engine, the    *)
(* spatial estimator and the semi-distributed hydrology engine.            *)
(*                                                                         *)
(* Numbers.  The JavaScript code computes in doubles.  Here every          *)
(* quantity is a fixed-point integer:                                      *)
(*   flows (m3/s), rainfall depths (mm), intensities (mm/h): tenths,       *)
(*     the resolution the code itself rounds its results to                *)
(*     (Math.round(x * 10) / 10);                                          *)
(*   latitudes and longitudes: hundredths of a degree.                     *)
(***************************************************************************)
EXTENDS Integers, Sequences, FiniteSets, TLC

VARIABLES
  basins,      \* state.basins: the Map, as the sequence of its values in insertion order
  stations,    \* state.stations: station id -> latest observation
  alerts,      \* state.alerts
  lastUpdate,  \* state.lastUpdate (0: null)
  radarData,   \* state.radarData
  radarGrid,   \* state.radarGrid
  history,     \* alertEngine.history
  cycles,      \* the invocations of updateCycle that are suspended at their await
  clock,       \* the wall clock read by new Date()
  started,     \* number of updateCycle invocations so far
  apiKey,      \* process.env.AEMET_API_KEY is set
  listening,   \* the callback of server.listen has run
  radarStarted, \* number of updateRadar invocations that reached the fetch
  trace        \* observations of the last step, for stating the properties

vars == <<basins, stations, alerts, lastUpdate, radarData, radarGrid, history,
          cycles, clock, started, apiKey, listening, radarStarted, trace>>

\* One physical unit (1 m3/s, 1 mm, 1 mm/h) in model units.
Scale == 10

Null == [isNull |-> TRUE]

\* A nullable array that is not null.
Array(items) == [isNull |-> FALSE, items |-> items]

\* arr && arr.length > 0
NonEmpty(arr) == arr # Null /\ Len(arr.items) > 0

\* obj[k] = v on a JavaScript object: the field is added when absent.
Put(r, k, v) == [f \in DOMAIN r \cup {k} |-> IF f = k THEN v ELSE r[f]]

\* obj[k] || 0 for a numeric field that may be absent.
NumOrZero(r, k) == IF k \in DOMAIN r THEN r[k] ELSE 0

Max(a, b) == IF a >= b THEN a ELSE b
Min(a, b) == IF a <= b THEN a ELSE b

(***************************************************************************)
(* The basin catalogue (config/basins.json), as server.js loads it.        *)
(***************************************************************************)
Bounds(s, n, w, e) == [south |-> s, north |-> n, west |-> w, east |-> e]

Thresholds(y, o, r) == [yellow |-> y * Scale, orange |-> o * Scale, red |-> r * Scale]

Catalogue ==
  << [id |-> "segura", name |-> "Segura", type |-> "rio", area |-> 160,
      bounds |-> Bounds(0, 4, 0, 8),
      thresholds |-> Thresholds(50, 150, 300),
      subcatchments |->
        << [id |-> "seg_alto", name |-> "Alto", area |-> 100, cn |-> 75, slope |-> 5,
            tc |-> 200, bounds |-> Bounds(0, 4, 0, 4),
            routingToOutlet |-> [K |-> 100, X |-> 10, reaches |-> 2]],
           [id |-> "seg_bajo", name |-> "Bajo", area |-> 60, cn |-> 80, slope |-> 3,
            tc |-> 150, bounds |-> Bounds(0, 4, 4, 8)] >>],
     [id |-> "mula", name |-> "Mula", type |-> "rambla", area |-> 40,
      bounds |-> Bounds(40, 44, 0, 4),
      subcatchments |->
        << [id |-> "mula_1", name |-> "Mula", area |-> 40, cn |-> 85, slope |-> 8,
            tc |-> 100, bounds |-> Bounds(40, 44, 0, 4)] >>],
     [id |-> "adra", name |-> "Adra", type |-> "rambla", area |-> 30, cn |-> 80,
      bounds |-> Bounds(80, 82, 0, 2),
      thresholds |-> Thresholds(20, 40, 80)] >>

\* basins.forEach(b => state.basins.set(b.id, {...b, currentFlow: 0, alerts: [],
\*   hydroResult: null, spatialEstimate: null}))
LoadBasin(b) ==
  Put(Put(Put(Put(b, "currentFlow", 0), "alerts", <<>>), "hydroResult", Null),
      "spatialEstimate", Null)

LoadBasins(cat) == [i \in 1..Len(cat) |-> LoadBasin(cat[i])]

(***************************************************************************)
(* AlertEngine (hydro-engine.js, second half).                             *)
(***************************************************************************)
DefaultThresholds == Thresholds(50, 150, 300)

\* basin.thresholds || { yellow: 50, orange: 150, red: 300 }
ThresholdsOf(basin) ==
  IF "thresholds" \in DOMAIN basin THEN basin.thresholds ELSE DefaultThresholds

\* A plausible slip: the orange rule tested before the red one.
LevelOf_OrangeFirst(flow, precip, intensity, thresholds) ==
  IF flow >= thresholds.orange \/ intensity >= 30 * Scale \/ precip >= 50 * Scale
    THEN "orange"
  ELSE IF flow >= thresholds.red \/ intensity >= 60 * Scale \/ precip >= 100 * Scale
    THEN "red"
  ELSE IF flow >= thresholds.yellow \/ intensity >= 15 * Scale \/ precip >= 20 * Scale
    THEN "yellow"
  ELSE "green"

\* A plausible slip: the orange intensity rule written as a band, which lets a
\* higher intensity fall back to yellow.
LevelOf_Band(flow, precip, intensity, thresholds) ==
  IF flow >= thresholds.red \/ intensity >= 60 * Scale \/ precip >= 100 * Scale
    THEN "red"
  ELSE IF flow >= thresholds.orange \/ (intensity >= 30 * Scale /\ intensity < 35 * Scale)
            \/ precip >= 50 * Scale
    THEN "orange"
  ELSE IF flow >= thresholds.yellow \/ intensity >= 15 * Scale \/ precip >= 20 * Scale
    THEN "yellow"
  ELSE "green"

\* evaluate, the if / else-if chain.
LevelOf(flow, precip, intensity, thresholds) ==
  IF flow >= thresholds.red \/ intensity >= 60 * Scale \/ precip >= 100 * Scale
    THEN "red"
  ELSE IF flow >= thresholds.orange \/ intensity >= 30 * Scale \/ precip >= 50 * Scale
    THEN "orange"
  ELSE IF flow >= thresholds.yellow \/ intensity >= 15 * Scale \/ precip >= 20 * Scale
    THEN "yellow"
  ELSE "green"

MessageOf(level) ==
  CASE level = "red" -> "ALERTA ROJA: Riesgo extremo de riada"
    [] level = "orange" -> "ALERTA NARANJA: Riesgo alto de crecida"
    [] level = "yellow" -> "AVISO AMARILLO: Precipitaciones significativas"
    [] OTHER -> "Normal"

\* !basin.hydroResult is false
HasHydroResult(basin) == "hydroResult" \in DOMAIN basin /\ basin.hydroResult # Null

BasinLevel(basin) ==
  LevelOf(NumOrZero(basin, "currentFlow"), NumOrZero(basin, "precipitation"),
          NumOrZero(basin, "intensity"), ThresholdsOf(basin))

\* The record evaluate pushes.  The values are tenths already, so rounding the flow
\* to hundredths and the other two to tenths leaves them as they are.
AlertOf(basin, now) ==
  [basinId |-> basin.id, basinName |-> basin.name,
   level |-> BasinLevel(basin), message |-> MessageOf(BasinLevel(basin)),
   flow |-> NumOrZero(basin, "currentFlow"),
   precipitation |-> NumOrZero(basin, "precipitation"),
   intensity |-> NumOrZero(basin, "intensity"),
   timestamp |-> now]

\* A plausible slip: the hydroResult guard missing.
EmitsAlert_NoGuard(basin) == BasinLevel(basin) # "green"

\* if (!basin.hydroResult) continue; ... if (level !== 'green') alerts.push(...)
EmitsAlert(basin) == HasHydroResult(basin) /\ BasinLevel(basin) # "green"

\* The for loop of evaluate over the basins in the Map's iteration order.
RECURSIVE CollectAlerts(_, _, _)
CollectAlerts(bs, i, now) ==
  IF i > Len(bs) THEN <<>>
  ELSE (IF EmitsAlert(bs[i]) THEN <<AlertOf(bs[i], now)>> ELSE <<>>)
         \o CollectAlerts(bs, i + 1, now)

\* const order = { red: 0, orange: 1, yellow: 2 }
SeverityOrder(level) ==
  CASE level = "red" -> 0 [] level = "orange" -> 1 [] level = "yellow" -> 2 [] OTHER -> 3

\* The comparator (a, b) => order[a.level] - order[b.level].
CompareAlerts(a, b) == SeverityOrder(a.level) - SeverityOrder(b.level)

\* Insertion of a into a sorted list after every element that does not compare
\* greater: what a stable sort does with equal keys.
\* A plausible slip: an unstable sort, which puts an alert before its equals.
RECURSIVE InsertAlert_Before(_, _)
InsertAlert_Before(sorted, a) ==
  IF sorted = <<>> THEN <<a>>
  ELSE IF CompareAlerts(sorted[1], a) < 0
         THEN <<sorted[1]>> \o InsertAlert_Before(Tail(sorted), a)
         ELSE <<a>> \o sorted

RECURSIVE InsertAlert(_, _)
InsertAlert(sorted, a) ==
  IF sorted = <<>> THEN <<a>>
  ELSE IF CompareAlerts(sorted[1], a) <= 0
         THEN <<sorted[1]>> \o InsertAlert(Tail(sorted), a)
         ELSE <<a>> \o sorted

RECURSIVE SortFrom(_, _, _)
SortFrom(list, i, acc) ==
  IF i > Len(list) THEN acc ELSE SortFrom(list, i + 1, InsertAlert(acc, list[i]))

\* alerts.sort(...): Array.prototype.sort is stable.
SortAlerts(list) == SortFrom(list, 1, <<>>)

HistoryCap == 1000
HistoryKeep == 500

\* A plausible slip: the history cut when it reaches the capacity, not when it exceeds it.
PushHistory_AtCap(hist, list) ==
  LET h == hist \o list
  IN IF Len(h) >= HistoryCap THEN SubSeq(h, Len(h) - HistoryKeep + 1, Len(h)) ELSE h

\* this.history.push(...alerts); if (this.history.length > 1000) this.history =
\* this.history.slice(-500)
PushHistory(hist, list) ==
  LET h == hist \o list
  IN IF Len(h) > HistoryCap THEN SubSeq(h, Len(h) - HistoryKeep + 1, Len(h)) ELSE h

\* AlertEngine.evaluate(basins): the list it returns and the history it leaves.
Evaluate(bs, hist, now) ==
  LET list == SortAlerts(CollectAlerts(bs, 1, now))
  IN [alerts |-> list, history |-> PushHistory(hist, list)]

(***************************************************************************)
(* SpatialInterpolator (spatial-interpolator.js).                          *)
(*                                                                         *)
(* A station observation is [id, lat, lon, precipitation, intensity,      *)
(* online]; a radar pixel is [lat, lon, dBZ].  Coordinates are hundredths  *)
(* of a degree.  The great-circle distance is modelled by the plane        *)
(* distance in these units (one unit is about 1.11 km), squared.           *)
(***************************************************************************)
\* this.idwPower = 2: the weight is 1 / d^2, here WeightUnit \div d^2.
WeightUnit == 10000

\* this.searchRadius = 50 (km): (50 / 1.112)^2 in squared hundredths of a degree.
SearchRadius2 == 2021

\* this.radarWeight = 0.4, in tenths.
RadarWeight == 4

\* this.gridResolution = 0.02
GridResolution == 2

\* Math.round(a / b) for b > 0: halves round up.
RoundDiv(a, b) == (2 * a + b) \div (2 * b)

HaversineDistance2(lat1, lon1, lat2, lon2) ==
  (lat2 - lat1) * (lat2 - lat1) + (lon2 - lon1) * (lon2 - lon1)

\* A variant of the loop without the test d > this.searchRadius.
RECURSIVE IdwLoop_NoRadius(_, _, _, _, _, _, _)
IdwLoop_NoRadius(lat, lon, samples, field, i, sumWV, sumW) ==
  IF i > Len(samples)
    THEN (IF sumW > 0 THEN RoundDiv(sumWV, sumW) ELSE 0)
    ELSE LET d2 == HaversineDistance2(lat, lon, samples[i].lat, samples[i].lon)
             w == WeightUnit \div d2
         IN IF d2 = 0 THEN NumOrZero(samples[i], field)
            ELSE IdwLoop_NoRadius(lat, lon, samples, field, i + 1,
                                  sumWV + w * NumOrZero(samples[i], field), sumW + w)

\* The loop of idw and of idwFromGrid: the first sample closer than 0.01 km (here:
\* at the same coordinates) ends it with that sample's value; samples beyond the
\* search radius are skipped.
RECURSIVE IdwLoop(_, _, _, _, _, _, _)
IdwLoop(lat, lon, samples, field, i, sumWV, sumW) ==
  IF i > Len(samples)
    THEN (IF sumW > 0 THEN RoundDiv(sumWV, sumW) ELSE 0)
    ELSE LET d2 == HaversineDistance2(lat, lon, samples[i].lat, samples[i].lon)
             w == WeightUnit \div d2
         IN IF d2 = 0 THEN NumOrZero(samples[i], field)
            ELSE IF d2 > SearchRadius2
              THEN IdwLoop(lat, lon, samples, field, i + 1, sumWV, sumW)
              ELSE IdwLoop(lat, lon, samples, field, i + 1,
                           sumWV + w * NumOrZero(samples[i], field), sumW + w)

Idw(lat, lon, samples, field) == IdwLoop(lat, lon, samples, field, 1, 0, 0)

IdwFromGrid(lat, lon, grid, field) == IdwLoop(lat, lon, grid, field, 1, 0, 0)

\* The values lo, lo + step, ... that are <= hi.
RECURSIVE Steps(_, _, _)
Steps(lo, hi, step) == IF lo > hi THEN <<>> ELSE <<lo>> \o Steps(lo + step, hi, step)

RECURSIVE Concat(_, _)
Concat(seqs, i) == IF i > Len(seqs) THEN <<>> ELSE seqs[i] \o Concat(seqs, i + 1)

\* generateGrid: latitudes south..north, longitudes west..east, step 0.02.
GenerateGrid(bounds) ==
  LET lats == Steps(bounds.south, bounds.north, GridResolution)
      lons == Steps(bounds.west, bounds.east, GridResolution)
  IN Concat([a \in 1..Len(lats) |->
               [o \in 1..Len(lons) |-> [lat |-> lats[a], lon |-> lons[o]]]], 1)

RECURSIVE SumSeq(_, _)
SumSeq(xs, i) == IF i > Len(xs) THEN 0 ELSE xs[i] + SumSeq(xs, i + 1)

\* The largest element, 0 for none: let max = 0; if (x > max) max = x.
RECURSIVE MaxSeq(_, _)
MaxSeq(xs, i) == IF i > Len(xs) THEN 0 ELSE Max(xs[i], MaxSeq(xs, i + 1))

\* grid.length || 1
CountOrOne(grid) == IF Len(grid) = 0 THEN 1 ELSE Len(grid)

\* interpolateRegion (its grid of interpolated points is not kept).
InterpolateRegion(bounds, sts) ==
  IF Len(sts) = 0
    THEN [meanPrecip |-> 0, maxPrecip |-> 0, meanIntensity |-> 0, maxIntensity |-> 0,
          stationCount |-> 0, method |-> "none"]
    ELSE LET grid == GenerateGrid(bounds)
             ps == [k \in 1..Len(grid) |-> Idw(grid[k].lat, grid[k].lon, sts, "precipitation")]
             is == [k \in 1..Len(grid) |-> Idw(grid[k].lat, grid[k].lon, sts, "intensity")]
             cnt == CountOrOne(grid)
         IN [meanPrecip |-> RoundDiv(SumSeq(ps, 1), cnt), maxPrecip |-> MaxSeq(ps, 1),
             meanIntensity |-> RoundDiv(SumSeq(is, 1), cnt), maxIntensity |-> MaxSeq(is, 1),
             gridPoints |-> cnt, stationCount |-> Len(sts), method |-> "idw"]

\* RadarAemet.dBZtoRainRate(dBZ, 'marshall_palmer'): (10^(dBZ/10) / 200)^(1/1.6)
\* mm/h, in tenths, tabulated at the reflectivities the model uses.
DBZtoRainRate(dBZ) ==
  CASE dBZ = 0 -> 0 [] dBZ = 20 -> 6 [] dBZ = 35 -> 56 [] dBZ = 50 -> 486

\* radarGrid.map(p => ({...p, radarMM: dBZtoRainRate(p.dBZ || 0)}))
RadarPrecip(grid) ==
  [k \in 1..Len(grid) |-> Put(grid[k], "radarMM", DBZtoRainRate(NumOrZero(grid[k], "dBZ")))]

\* The radar pixel nearest to a station: the first of the nearest, if (d < minD).
RECURSIVE NearestPixel(_, _, _, _)
NearestPixel(st, pixels, i, best) ==
  IF i > Len(pixels) THEN best
  ELSE IF best = 0
            \/ HaversineDistance2(st.lat, st.lon, pixels[i].lat, pixels[i].lon)
                 < HaversineDistance2(st.lat, st.lon, pixels[best].lat, pixels[best].lon)
         THEN NearestPixel(st, pixels, i + 1, i)
         ELSE NearestPixel(st, pixels, i + 1, best)

\* The bias samples, station over radar: the ratio in tenths, at most 5; 3.0 where
\* the radar sees less than 0.1 mm and the gauge some rain; none otherwise.
RECURSIVE BiasPoints(_, _, _)
BiasPoints(sts, pixels, i) ==
  IF i > Len(sts) THEN <<>>
  ELSE LET st == sts[i]
           near == pixels[NearestPixel(st, pixels, 1, 0)]
           rest == BiasPoints(sts, pixels, i + 1)
       IN IF near.radarMM > 1
            THEN <<[lat |-> st.lat, lon |-> st.lon,
                    ratio |-> Min((NumOrZero(st, "precipitation") * Scale) \div near.radarMM,
                                  5 * Scale)]>> \o rest
          ELSE IF NumOrZero(st, "precipitation") > 0
            THEN <<[lat |-> st.lat, lon |-> st.lon, ratio |-> 3 * Scale]>> \o rest
          ELSE rest

\* radarOnlyEstimate
RadarOnlyEstimate(bounds, radar) ==
  LET grid == GenerateGrid(bounds)
      rp == RadarPrecip(radar)
      vs == [k \in 1..Len(grid) |-> IdwFromGrid(grid[k].lat, grid[k].lon, rp, "radarMM")]
      cnt == CountOrOne(grid)
  IN [meanPrecip |-> RoundDiv(SumSeq(vs, 1), cnt), maxPrecip |-> MaxSeq(vs, 1),
      gridPoints |-> cnt, stationCount |-> 0, method |-> "radar_only"]

\* fuseRadarStations; its callers pass the filtered pixels, an array.
FuseRadarStations(bounds, sts, radar) ==
  IF Len(radar) = 0 THEN InterpolateRegion(bounds, sts)
  ELSE IF Len(sts) = 0 THEN RadarOnlyEstimate(bounds, radar)
  ELSE
    LET rp == RadarPrecip(radar)
        bias == BiasPoints(sts, rp, 1)
        grid == GenerateGrid(bounds)
        fused(pt) ==
          LET radarVal == IdwFromGrid(pt.lat, pt.lon, rp, "radarMM")
              cf == IF Len(bias) > 0
                      THEN Max(1, Min(IdwFromGrid(pt.lat, pt.lon, bias, "ratio"), 5 * Scale))
                      ELSE Scale
              stVal == Idw(pt.lat, pt.lon, sts, "precipitation")
          IN RoundDiv(RadarWeight * ((radarVal * cf) \div Scale) + (Scale - RadarWeight) * stVal,
                      Scale)
        vs == [k \in 1..Len(grid) |-> fused(grid[k])]
        cnt == CountOrOne(grid)
    IN [meanPrecip |-> RoundDiv(SumSeq(vs, 1), cnt), maxPrecip |-> MaxSeq(vs, 1),
        gridPoints |-> cnt, stationCount |-> Len(sts), method |-> "radar_station_fusion",
        radarWeight |-> RadarWeight]

\* Array.prototype.filter, for a test given as the set of the elements that pass.
RECURSIVE Filter(_, _, _)
Filter(xs, keep(_), i) ==
  IF i > Len(xs) THEN <<>>
  ELSE (IF keep(xs[i]) THEN <<xs[i]>> ELSE <<>>) \o Filter(xs, keep, i + 1)

InBounds(p, bounds, margin) ==
  /\ p.lat >= bounds.south - margin /\ p.lat <= bounds.north + margin
  /\ p.lon >= bounds.west - margin /\ p.lon <= bounds.east + margin

\* const margin = 0.15 and const subMargin = 0.08
BasinMargin == 15
SubMargin == 8

\* basin.subcatchments || []
SubcatchmentsOf(basin) ==
  IF "subcatchments" \in DOMAIN basin THEN basin.subcatchments ELSE <<>>

\* estimateSubcatchmentPrecip reads basin.bounds, or a subcatchment's bounds, that
\* the catalogue does not give: a TypeError.  The filter callbacks that read them
\* run only when there is a station (or a radar pixel) to test.
EstimateThrows(basin, allStations, grid) ==
  LET hasBounds == "bounds" \in DOMAIN basin
      subs == SubcatchmentsOf(basin)
      near(st) == InBounds(st, basin.bounds, BasinMargin) /\ st.online
      basinStations == Filter(allStations, near, 1)
      inBasin(r) == InBounds(r, basin.bounds, 0)
      basinRadar == IF NonEmpty(grid) THEN Filter(grid.items, inBasin, 1) ELSE <<>>
  IN IF ~hasBounds
       THEN Len(allStations) > 0 \/ NonEmpty(grid)
       ELSE /\ Len(basinStations) > 0 \/ Len(basinRadar) > 0
            /\ \E k \in 1..Len(subs) : "bounds" \notin DOMAIN subs[k]

\* estimate.maxIntensity || estimate.maxPrecip || 0
EstimateIntensity(est) ==
  IF NumOrZero(est, "maxIntensity") # 0 THEN est.maxIntensity ELSE NumOrZero(est, "maxPrecip")

\* The entry subPrecip[sub.id] built from a subcatchment's estimate.
SubEntry(estimate, stationsUsed, radarPixels) ==
  [precip |-> NumOrZero(estimate, "meanPrecip"),
   intensity |-> EstimateIntensity(estimate),
   method |-> estimate.method,
   stationsUsed |-> stationsUsed,
   radarPixels |-> radarPixels]

\* SubEstimateFrom that looks at the gauges first: with gauges it interpolates
\* them, whether or not there are radar pixels.
SubEstimateFrom_GaugesFirst(bounds, subStations, subRadar) ==
  SubEntry(IF Len(subStations) > 0 THEN InterpolateRegion(bounds, subStations)
           ELSE IF Len(subRadar) > 0 THEN RadarOnlyEstimate(bounds, subRadar)
           ELSE [meanPrecip |-> 0, maxPrecip |-> 0, meanIntensity |-> 0, maxIntensity |-> 0,
                 method |-> "no_data"],
           Len(subStations), Len(subRadar))

\* SubEstimateFrom whose last branch falls back on the gauge interpolation tag.
SubEstimateFrom_WrongTag(bounds, subStations, subRadar) ==
  SubEntry(IF Len(subRadar) > 0 /\ Len(subStations) > 0
             THEN FuseRadarStations(bounds, subStations, subRadar)
           ELSE IF Len(subStations) > 0 THEN InterpolateRegion(bounds, subStations)
           ELSE IF Len(subRadar) > 0 THEN RadarOnlyEstimate(bounds, subRadar)
           ELSE [meanPrecip |-> 0, maxPrecip |-> 0, meanIntensity |-> 0, maxIntensity |-> 0,
                 method |-> "idw"],
           Len(subStations), Len(subRadar))

\* The choice of method for one subcatchment, given its stations and its radar
\* pixels (none when the basin has no radar).
SubEstimateFrom(bounds, subStations, subRadar) ==
  SubEntry(IF Len(subRadar) > 0 /\ Len(subStations) > 0
             THEN FuseRadarStations(bounds, subStations, subRadar)
           ELSE IF Len(subStations) > 0 THEN InterpolateRegion(bounds, subStations)
           ELSE IF Len(subRadar) > 0 THEN RadarOnlyEstimate(bounds, subRadar)
           ELSE [meanPrecip |-> 0, maxPrecip |-> 0, meanIntensity |-> 0, maxIntensity |-> 0,
                 method |-> "no_data"],
           Len(subStations), Len(subRadar))

\* The body of the for loop over the subcatchments.
SubEstimate(sub, basinStations, basinRadar) ==
  LET near(st) == InBounds(st, sub.bounds, SubMargin)
      inSub(r) == InBounds(r, sub.bounds, 0)
  IN SubEstimateFrom(sub.bounds, Filter(basinStations, near, 1), Filter(basinRadar, inSub, 1))

\* The estimates of the subcatchments, in the order of the loop.
RECURSIVE SubEstimates(_, _, _, _, _)
SubEstimates(subs, i, basinStations, basinRadar, acc) ==
  IF i > Len(subs) THEN acc
  ELSE SubEstimates(subs, i + 1, basinStations, basinRadar,
                    Append(acc, SubEstimate(subs[i], basinStations, basinRadar)))

\* The object subPrecip after the loop: one key per subcatchment id, a later
\* subcatchment of the same id replacing an earlier one.
RECURSIVE SubPrecip(_, _, _, _)
SubPrecip(subs, ests, i, acc) ==
  IF i > Len(subs) THEN acc
  ELSE SubPrecip(subs, ests, i + 1, Put(acc, subs[i].id, ests[i]))

EmptyObject == [k \in {} |-> 0]

\* The returned object of a basin without subcatchments.
LumpedEstimate(basin, stationsUsed, result) ==
  [mean |-> result.meanPrecip, maxIntensity |-> result.maxPrecip,
   method |-> result.method, basinId |-> basin.id,
   stationsUsed |-> stationsUsed, subcatchmentCount |-> 0]

\* The fields mean, maxIntensity, ... that the return statement adds to subPrecip.
EstimateSummary(basin, subs, ests, stationsUsed, hasRadar) ==
  LET totalWeightedP == SumSeq([k \in 1..Len(subs) |-> ests[k].precip * subs[k].area], 1)
      totalArea == SumSeq([k \in 1..Len(subs) |-> subs[k].area], 1)
  IN [mean |-> IF totalArea > 0 THEN RoundDiv(totalWeightedP, totalArea) ELSE 0,
      maxIntensity |-> MaxSeq([k \in 1..Len(subs) |-> ests[k].intensity], 1),
      method |-> IF hasRadar THEN "distributed_fusion" ELSE "distributed_idw",
      basinId |-> basin.id,
      stationsUsed |-> stationsUsed,
      subcatchmentCount |-> Len(subs)]

\* { ...subPrecip, mean, maxIntensity, method, basinId, stationsUsed, subcatchmentCount }
Spread(subPrecip, summary) ==
  [k \in DOMAIN subPrecip \cup DOMAIN summary |->
     IF k \in DOMAIN summary THEN summary[k] ELSE subPrecip[k]]

DistributedEstimate(basin, subs, ests, stationsUsed, hasRadar) ==
  Spread(SubPrecip(subs, ests, 1, EmptyObject),
         EstimateSummary(basin, subs, ests, stationsUsed, hasRadar))

\* estimateSubcatchmentPrecip from the basin's stations and radar pixels on.
EstimateFrom(basin, subs, basinStations, basinRadar) ==
  IF Len(subs) = 0
    THEN LumpedEstimate(basin, Len(basinStations),
                        IF Len(basinRadar) > 0 /\ Len(basinStations) > 0
                          THEN FuseRadarStations(basin.bounds, basinStations, basinRadar)
                          ELSE InterpolateRegion(basin.bounds, basinStations))
    ELSE DistributedEstimate(basin, subs,
                             SubEstimates(subs, 1, basinStations, basinRadar, <<>>),
                             Len(basinStations), Len(basinRadar) > 0)

\* estimateSubcatchmentPrecip(basin, allStations, radarService, radarGrid), for a
\* call that does not throw.
EstimateSubcatchmentPrecip(basin, allStations, grid) ==
  LET near(st) == InBounds(st, basin.bounds, BasinMargin) /\ st.online
      inBasin(r) == InBounds(r, basin.bounds, 0)
  IN EstimateFrom(basin, SubcatchmentsOf(basin), Filter(allStations, near, 1),
                  IF NonEmpty(grid) THEN Filter(grid.items, inBasin, 1) ELSE <<>>)

(***************************************************************************)
(* HydroEngine, the semi-distributed engine (unnamed/part_003).            *)
(*                                                                         *)
(* Units: rainfall and intensity in tenths of mm and mm/h, effective       *)
(* rainfall in hundredths of a mm, times (tc, K, dt, R) in hundredths of   *)
(* an hour, Muskingum X in hundredths, hydrograph flows in hundredths of   *)
(* m3/s, reported peak flows in tenths of m3/s (the code rounds them to    *)
(* one decimal).                                                           *)
(***************************************************************************)
\* const dt = 0.25
Dt == 25

\* The unit of the dimensionless coefficients (time-area fractions, C1, C2).
CoefUnit == 10000

\* Math.ceil(a / b) for a >= 0, b > 0.
CeilDiv(a, b) == (a + b - 1) \div b

\* a * n / d without forming a * n, for a >= 0 and d > 0.
MulDiv(a, n, d) == (a \div d) * n + ((a % d) * n) \div d

\* x * c / CoefUnit for a flow x of either sign.
ScaleBy(x, c) == IF x >= 0 THEN MulDiv(x, c, CoefUnit) ELSE 0 - MulDiv(0 - x, c, CoefUnit)

\* Temez' formula 0.3 * (L / S^0.25)^0.76 with L = sub.cauceLength ||
\* Math.sqrt(sub.area) * 1.5 and S = sub.slope || 5, tabulated for the areas and
\* slopes of the catalogue (no entry of the catalogue gives a cauceLength).
TemezTc(sub) ==
  LET S == IF NumOrZero(sub, "slope") # 0 THEN sub.slope ELSE 5
  IN CASE sub.area = 30 /\ S = 5 -> 110
       [] sub.area = 40 /\ S = 8 -> 112
       [] sub.area = 60 /\ S = 3 -> 157
       [] sub.area = 100 /\ S = 5 -> 173

\* calculateTc(sub)
CalculateTc(sub) == IF NumOrZero(sub, "tc") # 0 THEN sub.tc ELSE TemezTc(sub)

\* A variant of scsCurveNumber without the early return for P <= Ia.
ScsCurveNumber_NoGuard(P, cn) ==
  LET S == (2540000 \div cn) - 25400
      Ia == S \div 5
      P100 == P * 10
  IN IF P100 + (4 * S) \div 5 = 0 THEN 0
     ELSE ((P100 - Ia) * (P100 - Ia)) \div (P100 + (4 * S) \div 5)

\* scsCurveNumber(P, cn): P in tenths of a mm, the result in hundredths.
ScsCurveNumber(P, cn) ==
  LET S == (2540000 \div cn) - 25400
      Ia == S \div 5
      P100 == P * 10
  IN IF P100 <= Ia THEN 0
     ELSE ((P100 - Ia) * (P100 - Ia)) \div (P100 + (4 * S) \div 5)

\* cnToRunoffCoeff(cn), in hundredths.
CnToRunoffCoeff(cn) ==
  IF cn >= 90 THEN 85
  ELSE IF cn >= 85 THEN 72
  ELSE IF cn >= 80 THEN 60
  ELSE IF cn >= 75 THEN 50
  ELSE IF cn >= 70 THEN 40
  ELSE IF cn >= 65 THEN 30
  ELSE IF cn >= 60 THEN 22
  ELSE 15

\* rationalMethod(sub, intensity): C * I * A / 3.6, in hundredths of m3/s.
RationalMethod(cn, area, intensity) == (CnToRunoffCoeff(cn) * intensity * area) \div 36

\* The parabolic time-area curve taf(f), f and the result in CoefUnit.
Taf(f) ==
  IF f <= 0 THEN 0
  ELSE IF f >= CoefUnit THEN CoefUnit
  ELSE IF 2 * f <= CoefUnit THEN (2 * f * f) \div CoefUnit
  ELSE CoefUnit - (2 * (CoefUnit - f) * (CoefUnit - f)) \div CoefUnit

\* inflow[i] of clarkUnitHydrograph, i counted from 0.
ClarkInflow(i, tc, dt, Pe, area) ==
  LET t == i * dt
      rate == (Pe * area * 250) \div (9 * dt)
      A1 == Taf((t * CoefUnit) \div tc)
      A0 == IF i > 0 THEN Taf(((t - dt) * CoefUnit) \div tc) ELSE 0
  IN IF t <= tc /\ tc > 0 THEN ScaleBy(rate, Max(0, A1 - A0)) ELSE 0

\* The linear-reservoir loop of clarkUnitHydrograph from step i on; Qp is the
\* unclamped outflow of the step before.
RECURSIVE ClarkLoop(_, _, _, _, _, _, _, _, _)
ClarkLoop(i, nSteps, C1, tc, dt, Pe, area, Qp, acc) ==
  IF i >= nSteps THEN acc
  ELSE LET Q == ScaleBy(ClarkInflow(i, tc, dt, Pe, area), C1) + ScaleBy(Qp, CoefUnit - C1)
       IN ClarkLoop(i + 1, nSteps, C1, tc, dt, Pe, area, Q,
                    Append(acc, [time |-> i * dt, flow |-> Max(0, Q)]))

\* clarkUnitHydrograph(sub, Pe, dt)
ClarkUnitHydrograph(sub, Pe, dt) ==
  LET tc == CalculateTc(sub)
      R == IF NumOrZero(sub, "storageCoeff") # 0 THEN sub.storageCoeff ELSE (tc * 7) \div 10
      nSteps == CeilDiv(tc + R * 4, dt)
      C1 == (2 * dt * CoefUnit) \div (2 * R + dt)
  IN ClarkLoop(0, nSteps, C1, tc, dt, Pe, sub.area, 0, <<>>)

\* Math.max(...hydrograph.map(h => h.flow)) of a non-empty hydrograph.
RECURSIVE PeakOf(_, _)
PeakOf(h, i) == IF i > Len(h) THEN 0 ELSE Max(h[i].flow, PeakOf(h, i + 1))

\* routing.X || 0.2
MuskingumX(routing) == IF NumOrZero(routing, "X") # 0 THEN routing.X ELSE 20

\* A variant of the reach loop that pushes O as computed, without Math.max(0, O).
RECURSIVE RouteReach_NoClamp(_, _, _, _, _, _, _)
RouteReach_NoClamp(current, i, n0, n1, n2, denom, routed) ==
  IF i > Len(current) THEN routed
  ELSE LET O == MulDiv(current[i], n0, denom) + MulDiv(current[i - 1], n1, denom)
                + MulDiv(routed[i - 1], n2, denom)
       IN RouteReach_NoClamp(current, i + 1, n0, n1, n2, denom, Append(routed, O))

\* One reach of muskingumRouting from sample i on: O = C0*I2 + C1*I1 + C2*O1,
\* the coefficients kept as numerators n0, n1, n2 over denom.
RECURSIVE RouteReach(_, _, _, _, _, _, _)
RouteReach(current, i, n0, n1, n2, denom, routed) ==
  IF i > Len(current) THEN routed
  ELSE LET O == MulDiv(current[i], n0, denom) + MulDiv(current[i - 1], n1, denom)
                + MulDiv(routed[i - 1], n2, denom)
       IN RouteReach(current, i + 1, n0, n1, n2, denom, Append(routed, Max(0, O)))

\* The loop over the reaches; a reach whose denominator is not positive is skipped.
RECURSIVE RouteReaches(_, _, _, _, _)
RouteReaches(current, r, K, X, dt) ==
  LET KX == K * X
      half == 50 * dt
      denom == 100 * K - KX + half
  IN IF r <= 0 THEN current
     ELSE IF denom <= 0 THEN RouteReaches(current, r - 1, K, X, dt)
     ELSE RouteReaches(RouteReach(current, 2, half - KX, KX + half, 100 * K - KX - half,
                                  denom, <<current[1]>>),
                       r - 1, K, X, dt)

\* muskingumRouting(hydrograph, routing, dt) of a non-empty hydrograph.
MuskingumRouting(hydrograph, routing, dt) ==
  IF routing = Null \/ NumOrZero(routing, "K") = 0 THEN hydrograph
  ELSE LET reaches == IF NumOrZero(routing, "reaches") # 0 THEN routing.reaches ELSE 1
           flows == [i \in 1..Len(hydrograph) |-> hydrograph[i].flow]
           out == RouteReaches(flows, reaches, routing.K, MuskingumX(routing), dt)
       IN [i \in 1..Len(out) |-> [time |-> hydrograph[i].time, flow |-> out[i]]]

\* calculateSubcatchment(sub, precip, intensity), with the routed hydrograph that
\* calculateBasinDistributed attaches to it.
CalculateSubcatchment(sub, precip, intensity) ==
  LET Pe == ScsCurveNumber(precip, sub.cn)
      Qrational == RationalMethod(sub.cn, sub.area, intensity)
      hydrograph == IF Pe > 0 THEN ClarkUnitHydrograph(sub, Pe, Dt) ELSE <<>>
      Qpeak == PeakOf(hydrograph, 1)
  IN [subId |-> sub.id, area |-> sub.area, tc |-> CalculateTc(sub), cn |-> sub.cn,
      precipitation |-> precip, intensity |-> intensity, effectiveRainfall |-> Pe,
      rationalFlow |-> RoundDiv(Qrational, 10), clarkPeakFlow |-> RoundDiv(Qpeak, 10),
      peakFlow |-> RoundDiv(Max(Qrational, Qpeak), 10),
      hydrograph |-> hydrograph,
      routedHydrograph |->
        IF Len(hydrograph) > 0 /\ "routingToOutlet" \in DOMAIN sub
          THEN MuskingumRouting(hydrograph, sub.routingToOutlet, Dt)
          ELSE hydrograph]

\* subcatchmentPrecip[sub.id] || { precip: 0, intensity: 0 }
PrecipDataOf(subcatchmentPrecip, id) ==
  IF id \in DOMAIN subcatchmentPrecip THEN subcatchmentPrecip[id]
  ELSE [precip |-> 0, intensity |-> 0]

\* A variant of the search for the peak time that keeps the last sample whose
\* flow is the peak.
RECURSIVE PeakTimeOf_Last(_, _, _)
PeakTimeOf_Last(h, peak, i) ==
  IF i > Len(h) THEN 0
  ELSE LET later == PeakTimeOf_Last(h, peak, i + 1)
       IN IF later # 0 THEN later
          ELSE IF h[i].flow = peak THEN h[i].time ELSE 0

\* compositeHydrograph.find(h => h.flow === peakFlow)?.time || 0
RECURSIVE PeakTimeOf(_, _, _)
PeakTimeOf(h, peak, i) ==
  IF i > Len(h) THEN 0
  ELSE IF h[i].flow = peak THEN h[i].time
  ELSE PeakTimeOf(h, peak, i + 1)

\* calculateLumped(basin, precipitation, intensity)
CalculateLumped(basin, precipitation, intensity, now) ==
  LET cn == IF NumOrZero(basin, "cn") # 0 THEN basin.cn ELSE 75
      Pe == ScsCurveNumber(precipitation, cn)
      Qr == RationalMethod(cn, basin.area, intensity)
      hydrograph == IF Pe > 0 THEN ClarkUnitHydrograph(basin, Pe, Dt) ELSE <<>>
      Qc == PeakOf(hydrograph, 1)
  IN [basinId |-> basin.id, method |-> "lumped", dt |-> Dt,
      peakFlow |-> RoundDiv(Max(Qr, Qc), 10),
      compositeHydrograph |-> hydrograph, subcatchmentResults |-> <<>>,
      tc |-> CalculateTc(basin), effectiveRainfall |-> Pe, timestamp |-> now]

\* The first loop of calculateBasinDistributed: one result per subcatchment.
RECURSIVE SubResults(_, _, _, _)
SubResults(subs, subcatchmentPrecip, k, acc) ==
  IF k > Len(subs) THEN acc
  ELSE LET pData == PrecipDataOf(subcatchmentPrecip, subs[k].id)
       IN SubResults(subs, subcatchmentPrecip, k + 1,
                     Append(acc, CalculateSubcatchment(subs[k], pData.precip, pData.intensity)))

\* A variant of maxTime that keeps the last time of the first subcatchment that
\* has a hydrograph.
RECURSIVE MaxTime_First(_, _)
MaxTime_First(subResults, k) ==
  IF k > Len(subResults) THEN 0
  ELSE LET rh == subResults[k].routedHydrograph
       IN IF Len(rh) > 0 THEN rh[Len(rh)].time ELSE MaxTime_First(subResults, k + 1)

\* maxTime after the first loop: the largest last time of a routed hydrograph.
RECURSIVE MaxTime(_, _)
MaxTime(subResults, k) ==
  IF k > Len(subResults) THEN 0
  ELSE LET rh == subResults[k].routedHydrograph
       IN Max(IF Len(rh) > 0 THEN rh[Len(rh)].time ELSE 0, MaxTime(subResults, k + 1))

\* totalFlow of step i (counted from 0): the sum over the subcatchments whose
\* routed hydrograph has a sample i.
RECURSIVE TotalFlow(_, _, _)
TotalFlow(subResults, i, k) ==
  IF k > Len(subResults) THEN 0
  ELSE LET rh == subResults[k].routedHydrograph
       IN (IF i + 1 <= Len(rh) THEN rh[i + 1].flow ELSE 0) + TotalFlow(subResults, i, k + 1)

\* The superposition loop of calculateBasinDistributed from step i on.
RECURSIVE Superpose(_, _, _, _)
Superpose(subResults, nSteps, i, acc) ==
  IF i >= nSteps THEN acc
  ELSE Superpose(subResults, nSteps, i + 1,
                 Append(acc, [time |-> i * Dt, flow |-> TotalFlow(subResults, i, 1)]))

\* subResults.map(sr => ({ subId, ..., routedPeak, tc, cn }))
RECURSIVE SubSummaries(_, _, _)
SubSummaries(subResults, k, acc) ==
  IF k > Len(subResults) THEN acc
  ELSE LET sr == subResults[k]
       IN SubSummaries(subResults, k + 1,
            Append(acc, [subId |-> sr.subId, area |-> sr.area,
                         precipitation |-> sr.precipitation, intensity |-> sr.intensity,
                         effectiveRainfall |-> sr.effectiveRainfall, peakFlow |-> sr.peakFlow,
                         routedPeak |-> RoundDiv(PeakOf(sr.routedHydrograph, 1), 10),
                         tc |-> sr.tc, cn |-> sr.cn]))

\* The semi-distributed branch, given the results of the first loop.
DistributedResult(basin, subResults, now) ==
  LET nSteps == CeilDiv(MaxTime(subResults, 1), Dt) + 1
      compositeHydrograph == Superpose(subResults, nSteps, 0, <<>>)
  IN LET peakFlow == PeakOf(compositeHydrograph, 1)
     IN [basinId |-> basin.id, method |-> "semi_distributed", dt |-> Dt,
         peakFlow |-> RoundDiv(peakFlow, 10),
         peakTime |-> PeakTimeOf(compositeHydrograph, peakFlow, 1),
         compositeHydrograph |-> compositeHydrograph,
         subcatchmentResults |-> SubSummaries(subResults, 1, <<>>),
         timestamp |-> now]

\* calculateBasinDistributed(basin, subcatchmentPrecip)
CalculateBasinDistributed(basin, subcatchmentPrecip, now) ==
  LET subs == SubcatchmentsOf(basin)
  IN IF Len(subs) = 0
       THEN CalculateLumped(basin, NumOrZero(subcatchmentPrecip, "mean"),
                            NumOrZero(subcatchmentPrecip, "maxIntensity"), now)
       ELSE DistributedResult(basin, SubResults(subs, subcatchmentPrecip, 1, <<>>), now)

(***************************************************************************)
(* The initial state: server.js after module load, before listen's         *)
(* callback has run.                                                       *)
(***************************************************************************)
NoStations == [id \in {} |-> Null]

InitWith(cat) ==
  /\ basins = LoadBasins(cat)
  /\ stations = NoStations
  /\ alerts = <<>>
  /\ lastUpdate = 0
  /\ radarData = Null
  /\ radarGrid = Null
  /\ history = <<>>
  /\ cycles = <<>>
  /\ clock = 0
  /\ started = 0
  /\ apiKey = FALSE
  /\ listening = FALSE
  /\ radarStarted = 0
  /\ trace = [kind |-> "init"]

(***************************************************************************)
(* AlertEngine.evaluate on its own: a caller sets one basin's results and  *)
(* evaluates.                                                              *)
(***************************************************************************)
Reading(q, i, p, h) == [flow |-> q, intensity |-> i, precip |-> p, hydro |-> h]

\* The four readings of the escalation scenario, in tenths.
ScenarioReadings ==
  { Reading(40 * Scale, 10 * Scale, 10 * Scale, TRUE),
    Reading(60 * Scale, 10 * Scale, 10 * Scale, TRUE),
    Reading(60 * Scale, 35 * Scale, 10 * Scale, TRUE),
    Reading(60 * Scale, 35 * Scale, 120 * Scale, TRUE) }

\* Readings on and next to every boundary of the rule.
ClassifyReadings ==
  { Reading(q * Scale, i * Scale, p * Scale, TRUE) :
      q \in {40, 50, 60, 150, 300}, i \in {10, 35}, p \in {10, 120} }
  \cup { Reading(40 * Scale, i * Scale, 10 * Scale, TRUE) : i \in {15, 30, 60} }
  \cup { Reading(40 * Scale, 10 * Scale, p * Scale, TRUE) : p \in {20, 50, 100} }
  \cup { Reading(50 * Scale - 1, 10 * Scale, 10 * Scale, TRUE),
         Reading(40 * Scale, 15 * Scale - 1, 10 * Scale, TRUE),
         Reading(40 * Scale, 10 * Scale, 20 * Scale - 1, TRUE),
         Reading(300 * Scale, 60 * Scale, 120 * Scale, FALSE) }

AlertReadings == ScenarioReadings \cup { Reading(300 * Scale, 60 * Scale, 120 * Scale, FALSE) }

\* What a cycle leaves in a basin, as far as evaluate reads it.
ApplyReading(b, r) ==
  Put(Put(Put(Put(b, "currentFlow", r.flow), "precipitation", r.precip),
          "intensity", r.intensity),
      "hydroResult",
      IF r.hydro THEN [method |-> "semi_distributed", peakFlow |-> r.flow] ELSE Null)

MaxClassifyEvals == 2
MaxAlertEvals == 3

\* state.alerts = alertEngine.evaluate(state.basins), after one basin changed.
EvaluateOne(readings, maxEvals) ==
  /\ clock < maxEvals
  /\ \E i \in 1..Len(basins), r \in readings :
       /\ basins' = [basins EXCEPT ![i] = ApplyReading(@, r)]
       /\ LET res == Evaluate(basins', history, clock + 1)
          IN /\ alerts' = res.alerts
             /\ history' = res.history
  /\ clock' = clock + 1
  /\ trace' = [kind |-> "evaluate"]
  /\ UNCHANGED <<stations, lastUpdate, radarData, radarGrid, cycles, started, apiKey, listening, radarStarted>>

EvaluateClassify == EvaluateOne(ClassifyReadings, MaxClassifyEvals)

EvaluateAlerts == EvaluateOne(AlertReadings, MaxAlertEvals)

SpecClassify == InitWith(Catalogue) /\ [][EvaluateClassify]_vars

SpecAlerts == InitWith(Catalogue) /\ [][EvaluateAlerts]_vars

(***************************************************************************)
(* What the properties read.                                               *)
(***************************************************************************)
\* The level evaluate gave a basin: that of its alert, green when it has none.
ObservedLevel(list, id) ==
  IF \E k \in 1..Len(list) : list[k].basinId = id
    THEN (LET k == CHOOSE k \in 1..Len(list) : list[k].basinId = id IN list[k].level)
    ELSE "green"

\* green < yellow < orange < red
Severity(level) ==
  CASE level = "green" -> 0 [] level = "yellow" -> 1 [] level = "orange" -> 2
    [] level = "red" -> 3

\* The rule of the claim, first match top-down.
RuleLevel(q, i, p, t) ==
  CASE q >= t.red \/ i >= 60 * Scale \/ p >= 100 * Scale -> "red"
    [] ~(q >= t.red \/ i >= 60 * Scale \/ p >= 100 * Scale)
       /\ (q >= t.orange \/ i >= 30 * Scale \/ p >= 50 * Scale) -> "orange"
    [] ~(q >= t.red \/ i >= 60 * Scale \/ p >= 100 * Scale)
       /\ ~(q >= t.orange \/ i >= 30 * Scale \/ p >= 50 * Scale)
       /\ (q >= t.yellow \/ i >= 15 * Scale \/ p >= 20 * Scale) -> "yellow"
    [] OTHER -> "green"

HasReading(b, q, i, p) ==
  /\ HasHydroResult(b)
  /\ b.currentFlow = q * Scale /\ b.intensity = i * Scale /\ b.precipitation = p * Scale

\* C1: every basin that has a hydroResult is given the level of the first matching
\* rule, red, then orange, then yellow, else green; with thresholds {50,150,300} the
\* readings (Q,I,P) = (40,10,10), (60,10,10), (60,35,10), (60,35,120) are green,
\* yellow, orange, red.
C1_FirstMatchRule ==
  \A n \in 1..Len(basins) :
    LET b == basins[n]
        lvl == ObservedLevel(alerts, b.id)
    IN HasHydroResult(b) =>
         /\ lvl = RuleLevel(b.currentFlow, b.intensity, b.precipitation, ThresholdsOf(b))
         /\ ThresholdsOf(b) = Thresholds(50, 150, 300) =>
              /\ HasReading(b, 40, 10, 10) => lvl = "green"
              /\ HasReading(b, 60, 10, 10) => lvl = "yellow"
              /\ HasReading(b, 60, 35, 10) => lvl = "orange"
              /\ HasReading(b, 60, 35, 120) => lvl = "red"

C1_Witness ==
  \E n, m \in 1..Len(basins) :
    /\ ThresholdsOf(basins[n]) = Thresholds(50, 150, 300)
    /\ HasReading(basins[n], 60, 35, 120)
    /\ ObservedLevel(alerts, basins[n].id) = "red"
    /\ ThresholdsOf(basins[m]) = Thresholds(20, 40, 80)
    /\ HasReading(basins[m], 40, 10, 10)
    /\ ObservedLevel(alerts, basins[m].id) = "orange"

ReadingLeq(a, b) ==
  /\ a.currentFlow <= b.currentFlow
  /\ a.intensity <= b.intensity
  /\ a.precipitation <= b.precipitation

\* C2: the level is monotone in (Q, I, P): of two basins evaluated with the same
\* thresholds, the one whose three inputs are all at least the other's has a level
\* at least as severe.
C2_Monotone ==
  \A n, m \in 1..Len(basins) :
    (/\ HasHydroResult(basins[n]) /\ HasHydroResult(basins[m])
     /\ ThresholdsOf(basins[n]) = ThresholdsOf(basins[m])
     /\ ReadingLeq(basins[n], basins[m]))
    => Severity(ObservedLevel(alerts, basins[n].id))
         <= Severity(ObservedLevel(alerts, basins[m].id))

C2_Witness ==
  \E n, m \in 1..Len(basins) :
    /\ n # m
    /\ HasHydroResult(basins[n]) /\ HasHydroResult(basins[m])
    /\ ThresholdsOf(basins[n]) = ThresholdsOf(basins[m])
    /\ ReadingLeq(basins[n], basins[m])
    /\ basins[n].intensity < basins[m].intensity
    /\ ObservedLevel(alerts, basins[n].id) = "orange"
    /\ ObservedLevel(alerts, basins[m].id) = "red"

AlertedIds(list) == { list[k].basinId : k \in 1..Len(list) }

\* C3: the list holds exactly one alert for each basin that has a hydroResult and
\* is yellow, orange or red, none for a green basin or one without hydroResult, no
\* green alert and no basin twice.
C3_ExactlyNonGreen ==
  /\ AlertedIds(alerts) =
       { basins[n].id : n \in { k \in 1..Len(basins) :
           /\ HasHydroResult(basins[k])
           /\ RuleLevel(NumOrZero(basins[k], "currentFlow"), NumOrZero(basins[k], "intensity"),
                        NumOrZero(basins[k], "precipitation"), ThresholdsOf(basins[k]))
                \in {"yellow", "orange", "red"} } }
  /\ Cardinality(AlertedIds(alerts)) = Len(alerts)
  /\ \A k \in 1..Len(alerts) : alerts[k].level \in {"yellow", "orange", "red"}

C3_Witness ==
  /\ Len(alerts) = 1
  /\ \E n, m \in 1..Len(basins) :
       /\ HasHydroResult(basins[n]) /\ HasReading(basins[n], 40, 10, 10)
       /\ ~HasHydroResult(basins[m]) /\ basins[m].currentFlow = 300 * Scale

\* The place of a basin in the Map's iteration order.
BasinIndex(id) == CHOOSE n \in 1..Len(basins) : basins[n].id = id

\* C4: the list is ordered red, orange, yellow, and alerts of one severity keep the
\* iteration order of the basins map.
C4_SeverityStable ==
  \A p, q \in 1..Len(alerts) :
    p < q =>
      /\ Severity(alerts[p].level) >= Severity(alerts[q].level)
      /\ alerts[p].level = alerts[q].level
           => BasinIndex(alerts[p].basinId) < BasinIndex(alerts[q].basinId)

C4_Witness ==
  /\ Len(alerts) = 3
  /\ alerts[1].level = "red" /\ alerts[2].level = "yellow" /\ alerts[3].level = "yellow"
  /\ BasinIndex(alerts[1].basinId) = 3

(***************************************************************************)
(* AlertEngine.evaluate with a history that is close to its capacity: the  *)
(* state after n cycles in each of which the first basin alone was red.    *)
(* The clock's origin is the last of these cycles.                         *)
(***************************************************************************)
NearCap == 4
MaxHistEvals == 3

HistoryReadings ==
  { Reading(40 * Scale, 10 * Scale, 10 * Scale, TRUE),
    Reading(60 * Scale, 35 * Scale, 120 * Scale, TRUE) }

InitHistory ==
  \E n \in (HistoryCap - NearCap)..HistoryCap :
    LET red == Reading(60 * Scale, 35 * Scale, 120 * Scale, TRUE)
        bs == [LoadBasins(Catalogue) EXCEPT ![1] = ApplyReading(@, red)]
    IN /\ basins = bs
       /\ history = [k \in 1..n |-> AlertOf(bs[1], k - n)]
       /\ alerts = <<AlertOf(bs[1], 0)>>
       /\ clock = 0
       /\ stations = NoStations
       /\ lastUpdate = 0
       /\ radarData = Null
       /\ radarGrid = Null
       /\ cycles = <<>>
       /\ started = 0
       /\ apiKey = FALSE
       /\ listening = FALSE
       /\ radarStarted = 0
       /\ trace = [kind |-> "init"]

EvaluateHistory == EvaluateOne(HistoryReadings, MaxHistEvals)

SpecHistory == InitHistory /\ [][EvaluateHistory]_vars

\* The last n entries of a list, in their order.
LastEntries(list, n) == SubSeq(list, Len(list) - n + 1, Len(list))

\* C5: the history never holds more than 1000 entries; when appending a cycle's
\* alerts makes it longer than 1000 it becomes the 500 most recently appended
\* entries in their order, and otherwise it is the old history followed by the new
\* alerts, nothing dropped.
C5_RollingHistory ==
  /\ [](Len(history) <= HistoryCap)
  /\ [][ history' = IF Len(history) + Len(alerts') > 1000
                      THEN LastEntries(history \o alerts', 500)
                      ELSE history \o alerts' ]_vars

C5_Witness ==
  /\ Len(history) = 500
  /\ clock > 0
  /\ history[500].timestamp = clock
  /\ history[1].timestamp < 0

(***************************************************************************)
(* The server (server.js): the listen callback, the two cron schedules,    *)
(* the continuation of updateCycle and of updateRadar after their await,   *)
(* and a WebSocket client connecting.  Node runs each callback to          *)
(* completion, so each is one step; an invocation of updateCycle is two:   *)
(* up to the await of scraper.fetchAllStations(), and from there on.       *)
(***************************************************************************)
Station(id, lat, lon, p, i) ==
  [id |-> id, lat |-> lat, lon |-> lon, precipitation |-> p, intensity |-> i,
   online |-> TRUE]

\* What fetchAllStations can resolve to: nothing (every province request failed),
\* one province only, or all stations, dry or in a storm.
FetchResults ==
  { <<>>,
    << Station("s2", 42, 2, 50 * Scale, 30 * Scale) >>,
    << Station("s1", 2, 2, 0, 0), Station("s2", 42, 2, 0, 0), Station("s3", 81, 1, 0, 0) >>,
    << Station("s1", 2, 2, 120 * Scale, 60 * Scale), Station("s2", 42, 2, 30 * Scale, 10 * Scale),
       Station("s3", 81, 1, 80 * Scale, 40 * Scale) >> }

\* A catalogue whose second basin has no bounds.
CatalogueNoBounds ==
  [i \in 1..Len(Catalogue) |->
     IF i = 2 THEN [f \in DOMAIN Catalogue[i] \ {"bounds"} |-> Catalogue[i][f]]
     ELSE Catalogue[i]]

MaxCycles == 2
MaxRadar == 2

InitServer ==
  \E cat \in {Catalogue, CatalogueNoBounds}, key \in BOOLEAN :
    /\ basins = LoadBasins(cat)
    /\ stations = NoStations
    /\ alerts = <<>>
    /\ lastUpdate = 0
    /\ radarData = Null
    /\ radarGrid = Null
    /\ history = <<>>
    /\ cycles = <<>>
    /\ clock = 0
    /\ started = 0
    /\ apiKey = key
    /\ listening = FALSE
    /\ radarStarted = 0
    /\ trace = [kind |-> "init", seq |-> 0, fetched |-> 0, stationData |-> <<>>,
                threw |-> 0, broadcast |-> FALSE]

\* A variant of the forEach that leaves an id already in the map alone.
RECURSIVE SetStations_KeepFirst(_, _, _)
SetStations_KeepFirst(map, stationData, i) ==
  IF i > Len(stationData) THEN map
  ELSE SetStations_KeepFirst(IF stationData[i].id \in DOMAIN map THEN map
                             ELSE Put(map, stationData[i].id, stationData[i]),
                             stationData, i + 1)

\* stationData.forEach(s => state.stations.set(s.id, s))
RECURSIVE SetStations(_, _, _)
SetStations(map, stationData, i) ==
  IF i > Len(stationData) THEN map
  ELSE SetStations(Put(map, stationData[i].id, stationData[i]), stationData, i + 1)

\* A variant of the loop body that stores a fresh object holding the results and
\* the basin's identity, instead of assigning to the basin.
AssignResults_FreshObject(basin, precipBySubcatchment, hydroResult) ==
  [id |-> basin.id, name |-> basin.name, alerts |-> basin.alerts,
   currentFlow |-> hydroResult.peakFlow,
   precipitation |-> precipBySubcatchment.mean,
   intensity |-> precipBySubcatchment.maxIntensity,
   hydroResult |-> hydroResult,
   spatialEstimate |-> precipBySubcatchment]

\* The five assignments to the basin at the end of the loop body.
AssignResults(basin, precipBySubcatchment, hydroResult) ==
  [f \in DOMAIN basin \cup {"precipitation", "intensity"} |->
     CASE f = "currentFlow" -> hydroResult.peakFlow
       [] f = "precipitation" -> precipBySubcatchment.mean
       [] f = "intensity" -> precipBySubcatchment.maxIntensity
       [] f = "hydroResult" -> hydroResult
       [] f = "spatialEstimate" -> precipBySubcatchment
       [] OTHER -> basin[f]]

SimulateBasin(basin, precipBySubcatchment, now) ==
  AssignResults(basin, precipBySubcatchment,
                CalculateBasinDistributed(basin, precipBySubcatchment, now))

\* The body of the for loop of updateCycle for one basin that does not throw.
UpdateBasin(basin, stationData, grid, now) ==
  SimulateBasin(basin, EstimateSubcatchmentPrecip(basin, stationData, grid), now)

\* The for loop of updateCycle from basin i on: the basins as the loop leaves them
\* and the index of the basin whose processing threw (0 for none).  The throw
\* leaves the loop; the basins after it are not visited.
RECURSIVE ProcessBasins(_, _, _, _, _)
ProcessBasins(bs, i, stationData, grid, now) ==
  IF i > Len(bs) THEN [basins |-> bs, threw |-> 0]
  ELSE IF EstimateThrows(bs[i], stationData, grid) THEN [basins |-> bs, threw |-> i]
  ELSE ProcessBasins([bs EXCEPT ![i] = UpdateBasin(bs[i], stationData, grid, now)],
                     i + 1, stationData, grid, now)

Remove(seq, k) == SubSeq(seq, 1, k - 1) \o SubSeq(seq, k + 1, Len(seq))

\* server.listen(PORT, () => { ...; updateCycle(); updateRadar(); }): each call
\* runs up to its await and leaves a suspended invocation; updateRadar does
\* nothing without an API key.
Listen ==
  /\ ~listening
  /\ started < MaxCycles
  /\ listening' = TRUE
  /\ started' = started + 1
  /\ cycles' = IF apiKey
                 THEN cycles \o << [kind |-> "cycle", seq |-> started + 1],
                                   [kind |-> "radar", seq |-> 0] >>
                 ELSE Append(cycles, [kind |-> "cycle", seq |-> started + 1])
  /\ radarStarted' = IF apiKey THEN radarStarted + 1 ELSE radarStarted
  /\ trace' = [trace EXCEPT !.kind = "start"]
  /\ UNCHANGED <<basins, stations, alerts, lastUpdate, radarData, radarGrid, history,
                 clock, apiKey>>

\* cron.schedule('*/5 * * * *', updateCycle)
CronUpdateCycle ==
  /\ started < MaxCycles
  /\ cycles' = Append(cycles, [kind |-> "cycle", seq |-> started + 1])
  /\ started' = started + 1
  /\ trace' = [trace EXCEPT !.kind = "start"]
  /\ UNCHANGED <<basins, stations, alerts, lastUpdate, radarData, radarGrid, history,
                 clock, apiKey, listening, radarStarted>>

\* A variant of updateRadar without the test of process.env.AEMET_API_KEY.
CronUpdateRadar_NoKeyTest ==
  /\ radarStarted < MaxRadar
  /\ radarStarted' = radarStarted + 1
  /\ cycles' = Append(cycles, [kind |-> "radar", seq |-> 0])
  /\ trace' = [trace EXCEPT !.kind = "start"]
  /\ UNCHANGED <<basins, stations, alerts, lastUpdate, radarData, radarGrid, history,
                 clock, started, apiKey, listening>>

\* cron.schedule('*/10 * * * *', updateRadar): with an API key the invocation
\* runs up to its await; without one it returns at once.
CronUpdateRadar ==
  /\ radarStarted < MaxRadar
  /\ radarStarted' = radarStarted + 1
  /\ cycles' = IF apiKey THEN Append(cycles, [kind |-> "radar", seq |-> 0]) ELSE cycles
  /\ trace' = [trace EXCEPT !.kind = IF apiKey THEN "start" ELSE "radar_off"]
  /\ UNCHANGED <<basins, stations, alerts, lastUpdate, radarData, radarGrid, history,
                 clock, started, apiKey, listening>>

\* The end of updateCycle given the outcome of its loop: without a throw the
\* alerts are evaluated and the update is broadcast; the catch only logs.
FinishCycle(seq, stationData, loop, ev) ==
  /\ basins' = loop.basins
  /\ IF loop.threw = 0
       THEN /\ alerts' = ev.alerts
            /\ history' = ev.history
       ELSE UNCHANGED <<alerts, history>>
  /\ trace' = [kind |-> "cycle", seq |-> seq, fetched |-> Len(stationData),
               stationData |-> stationData, threw |-> loop.threw,
               broadcast |-> loop.threw = 0]

EvaluateAfter(seq, stationData, loop, now) ==
  FinishCycle(seq, stationData, loop, Evaluate(loop.basins, history, now))

\* updateCycle() from the await on, for the suspended invocation at position k
\* whose fetch resolved to stationData.
ResumeCycle(k, stationData) ==
  /\ cycles[k].kind = "cycle"
  /\ cycles' = Remove(cycles, k)
  /\ clock' = clock + 1
  /\ stations' = SetStations(stations, stationData, 1)
  /\ lastUpdate' = clock + 1
  /\ EvaluateAfter(cycles[k].seq, stationData,
                   ProcessBasins(basins, 1, stationData, radarGrid, clock + 1),
                   clock + 1)
  /\ UNCHANGED <<radarData, radarGrid, started, apiKey, listening, radarStarted>>

\* What radar.fetchRadarData() resolves to with an API key.
RadarResults == { [imageUrl |-> "datos", timestamp |-> clock], [error |-> "error"] }

\* A variant of updateRadar that also stores a reflectivity grid of one pixel in
\* state.radarGrid.
ResumeRadar_StoresGrid(k, data) ==
  /\ cycles[k].kind = "radar"
  /\ cycles' = Remove(cycles, k)
  /\ radarData' = data
  /\ radarGrid' = Array(<< [lat |-> 2, lon |-> 2, dBZ |-> 35] >>)
  /\ trace' = [trace EXCEPT !.kind = "radar"]
  /\ UNCHANGED <<basins, stations, alerts, lastUpdate, history, clock,
                 started, apiKey, listening, radarStarted>>

\* updateRadar() from the await on: state.radarData = ...; broadcast('radar', ...)
ResumeRadar(k, data) ==
  /\ cycles[k].kind = "radar"
  /\ cycles' = Remove(cycles, k)
  /\ radarData' = data
  /\ trace' = [trace EXCEPT !.kind = "radar"]
  /\ UNCHANGED <<basins, stations, alerts, lastUpdate, radarGrid, history, clock,
                 started, apiKey, listening, radarStarted>>

\* wss.on('connection', ...): the init message is built from the shared state.
WsConnect ==
  /\ listening
  /\ trace' = [trace EXCEPT !.kind = "ws_init"]
  /\ UNCHANGED <<basins, stations, alerts, lastUpdate, radarData, radarGrid, history,
                 cycles, clock, started, apiKey, listening, radarStarted>>

NextServer ==
  \/ Listen
  \/ CronUpdateCycle
  \/ CronUpdateRadar
  \/ \E k \in 1..Len(cycles), stationData \in FetchResults : ResumeCycle(k, stationData)
  \/ \E k \in 1..Len(cycles), data \in RadarResults : ResumeRadar(k, data)
  \/ WsConnect

SpecServer == InitServer /\ [][NextServer]_vars

(***************************************************************************)
(* Properties of the update cycle.  trace.kind is "cycle" after a step of  *)
(* ResumeCycle and "ws_init" after a client connected; trace.seq is the    *)
(* start order of the invocation of updateCycle that last wrote the shared *)
(* state, trace.stationData what its fetch returned and trace.fetched the  *)
(* number of stations in it,                                               *)
(* trace.threw the index of the basin whose processing threw (0 for        *)
(* none), trace.broadcast whether the update was broadcast.                *)
(***************************************************************************)
\* The shared state before any cycle has written it.
NoCycleYet ==
  /\ lastUpdate = 0
  /\ alerts = <<>>
  /\ stations = NoStations
  /\ \A i \in 1..Len(basins) : ~HasHydroResult(basins[i]) /\ basins[i].currentFlow = 0

\* The shared state is the complete snapshot of the cycle that set lastUpdate:
\* every basin carries that cycle's result and the alerts are those of that cycle.
CompleteSnapshot ==
  /\ lastUpdate > 0
  /\ \A i \in 1..Len(basins) :
       /\ HasHydroResult(basins[i])
       /\ basins[i].hydroResult.timestamp = lastUpdate
       /\ basins[i].currentFlow = basins[i].hydroResult.peakFlow
       /\ basins[i].precipitation = basins[i].spatialEstimate.mean
       /\ basins[i].intensity = basins[i].spatialEstimate.maxIntensity
  /\ alerts = SortAlerts(CollectAlerts(basins, 1, lastUpdate))

\* A step that runs updateCycle from its await to its end.
CycleStep == trace'.kind = "cycle" /\ clock' = clock + 1

\* C6: a reader of the shared state never observes a half-updated snapshot: when a
\* WebSocket client connects and reads the state for its init message, the
\* stations, lastUpdate, every basin's results and the alerts are those of one
\* completed update cycle (or the untouched initial state).
C6_ReaderSeesOneCycle ==
  trace.kind = "ws_init" => (NoCycleYet \/ CompleteSnapshot)

\* C7: a cycle cannot partially apply: after any run of updateCycle, one that
\* throws while processing a basin included, the shared state is the complete new
\* snapshot or is equal to the state before the cycle.
C7_AllOrNothing ==
  [][ CycleStep =>
        \/ CompleteSnapshot'
        \/ <<stations, lastUpdate, basins, alerts>>' = <<stations, lastUpdate, basins, alerts>>
    ]_vars

\* C8: when invocations of updateCycle overlap, no write of an earlier-started
\* invocation follows the write of a later-started one: the invocations write the
\* shared state in the order in which they started.
C8_NoStaleOverwrite ==
  [][ CycleStep => trace'.seq > trace.seq ]_vars

\* The results of a basin that a cycle computes, the hydroResult up to the time
\* at which it was computed.
BasinResults(b) ==
  [currentFlow |-> b.currentFlow, precipitation |-> NumOrZero(b, "precipitation"),
   intensity |-> NumOrZero(b, "intensity"),
   hydroResult |-> IF HasHydroResult(b) THEN [b.hydroResult EXCEPT !.timestamp = 0]
                   ELSE b.hydroResult]

\* C9: a cycle whose station fetch fails, fetchAllStations yielding no station,
\* retains the previous snapshot's data: each basin's currentFlow, precipitation,
\* intensity and hydroResult and the alert list are unchanged by the cycle.
C9_FailedFetchRetains ==
  [][ CycleStep /\ trace'.fetched = 0 /\ lastUpdate > 0 =>
        /\ \A i \in 1..Len(basins) : BasinResults(basins'[i]) = BasinResults(basins[i])
        /\ alerts' = alerts
    ]_vars

\* C10: errors are local to one basin: when processing a basin throws in
\* updateCycle, every other basin is still processed in that cycle, and the cycle
\* still evaluates the alerts and broadcasts the update.
C10_ErrorsLocalToBasin ==
  (trace.kind = "cycle" /\ trace.threw # 0) =>
    /\ \A i \in 1..Len(basins) :
         i # trace.threw =>
           HasHydroResult(basins[i]) /\ basins[i].hydroResult.timestamp = lastUpdate
    /\ trace.broadcast

(***************************************************************************)
(* Catalogues with unphysical parameters.  The server loads whatever       *)
(* config/basins.json holds; here one basin of one subcatchment, one       *)
(* parameter of which is out of its physical range.                        *)
(***************************************************************************)
RamblaSub(cn, area, K, X, reaches) ==
  [id |-> "mula_1", name |-> "Mula", area |-> area, cn |-> cn, slope |-> 8, tc |-> 100,
   bounds |-> Bounds(40, 44, 0, 4),
   routingToOutlet |-> [K |-> K, X |-> X, reaches |-> reaches]]

RamblaCatalogue(sub) ==
  << [id |-> "mula", name |-> "Mula", type |-> "rambla", area |-> sub.area,
      bounds |-> Bounds(40, 44, 0, 4), subcatchments |-> << sub >>] >>

UnphysicalCatalogues ==
  { RamblaCatalogue(RamblaSub(120, 40, 100, 10, 1)),   \* CN above 100
    RamblaCatalogue(RamblaSub(20, 40, 100, 10, 1)),    \* CN below 30
    RamblaCatalogue(RamblaSub(85, 0, 100, 10, 1)),     \* area 0
    RamblaCatalogue(RamblaSub(85, 40, 100, 90, 1)),    \* X = 0.9
    RamblaCatalogue(RamblaSub(85, 40, 0, 10, 1)),      \* K = 0
    RamblaCatalogue(RamblaSub(85, 40, 100, 10, 0)) }   \* reaches = 0

InitUnphysical == \E cat \in UnphysicalCatalogues : InitWith(cat)

\* The server without an AEMET API key: updateRadar never reaches its fetch.
NextCycles ==
  \/ Listen
  \/ CronUpdateCycle
  \/ \E k \in 1..Len(cycles), stationData \in FetchResults : ResumeCycle(k, stationData)
  \/ WsConnect

SpecUnphysical == InitUnphysical /\ [][NextCycles]_vars

\* The parameters of a subcatchment are out of their physical ranges.
UnphysicalSub(sub) ==
  \/ sub.cn < 30 \/ sub.cn > 100
  \/ sub.area <= 0
  \/ /\ "routingToOutlet" \in DOMAIN sub
     /\ \/ sub.routingToOutlet.X < 0 \/ sub.routingToOutlet.X > 50
        \/ sub.routingToOutlet.K <= 0
        \/ sub.routingToOutlet.reaches < 1

UnphysicalBasin(b) ==
  \E k \in 1..Len(SubcatchmentsOf(b)) : UnphysicalSub(SubcatchmentsOf(b)[k])

\* C11: a basin with unphysical parameters (CN outside [30, 100], area <= 0, X
\* outside [0, 0.5], K <= 0 or reaches < 1) that a cycle has processed carries
\* a tagged validation error as its result, has no alert, and no flow was
\* computed for it.
C11_UnphysicalRejected ==
  \A i \in 1..Len(basins) :
    (UnphysicalBasin(basins[i]) /\ HasHydroResult(basins[i])) =>
      /\ "error" \in DOMAIN basins[i].hydroResult
      /\ basins[i].currentFlow = 0
      /\ \A k \in 1..Len(alerts) : alerts[k].basinId # basins[i].id

(***************************************************************************)
(* estimateSubcatchmentPrecip followed by calculateBasinDistributed on     *)
(* inputs drawn from small sets: a basin of the catalogue, a list of       *)
(* gauges and a radar grid (null, empty, or some pixels).                  *)
(***************************************************************************)
Pixel(lat, lon, dBZ) == [lat |-> lat, lon |-> lon, dBZ |-> dBZ]

Offline(st) == [st EXCEPT !.online = FALSE]

GaugeLists ==
  FetchResults \cup
    { << Station("s1", 2, 2, 40 * Scale, 20 * Scale) >>,
      << Offline(Station("s1", 2, 2, 40 * Scale, 20 * Scale)),
         Offline(Station("s2", 42, 2, 40 * Scale, 20 * Scale)) >> }

\* The radar grids tried, in a list: null, empty, or some pixels.
RadarGrids ==
  << Null, Array(<<>>),
     Array(<< Pixel(2, 2, 35) >>),
     Array(<< Pixel(2, 6, 50), Pixel(42, 2, 20) >>),
     Array(<< Pixel(81, 1, 50) >>) >>

InitEstimate ==
  /\ basins = LoadBasins(Catalogue)
  /\ stations = NoStations
  /\ alerts = <<>>
  /\ lastUpdate = 0
  /\ radarData = Null
  /\ radarGrid = Null
  /\ history = <<>>
  /\ cycles = <<>>
  /\ clock = 0
  /\ started = 0
  /\ apiKey = FALSE
  /\ listening = FALSE
  /\ radarStarted = 0
  /\ \E i \in 1..Len(Catalogue), sd \in GaugeLists, g \in 1..Len(RadarGrids) :
       trace = [kind |-> "input", basin |-> i, stations |-> sd, grid |-> g]

\* The outcome of the two calls on a basin: whether the estimate threw, the
\* estimate and the engine's result.
EstimateOutcome(basin, sd, g, estimate) ==
  [kind |-> "estimated", basinId |-> basin.id, stations |-> sd, grid |-> g,
   threw |-> EstimateThrows(basin, sd, RadarGrids[g]),
   estimate |-> estimate,
   result |-> CalculateBasinDistributed(basin, estimate, 0)]

ApplyEstimate ==
  /\ trace.kind = "input"
  /\ trace' = EstimateOutcome(basins[trace.basin], trace.stations, trace.grid,
                EstimateSubcatchmentPrecip(basins[trace.basin], trace.stations,
                                           RadarGrids[trace.grid]))
  /\ UNCHANGED <<basins, stations, alerts, lastUpdate, radarData, radarGrid, history,
                 cycles, clock, started, apiKey, listening, radarStarted>>

SpecEstimate == InitEstimate /\ [][ApplyEstimate]_vars

\* The subcatchment ids of the estimate of a basin of the catalogue.
SubIdsOf(id) ==
  LET b == basins[BasinIndex(id)]
  IN {SubcatchmentsOf(b)[k].id : k \in 1..Len(SubcatchmentsOf(b))}

NoData(entry) == entry.stationsUsed = 0 /\ entry.radarPixels = 0

\* C12: degraded inputs never raise an exception and yield zeros: for a basin with
\* subcatchments the estimate returns normally whatever the gauges and the radar
\* grid; a subcatchment left with neither gauges nor radar pixels gets precip 0,
\* intensity 0 and the tag no_data; and when that is so of every subcatchment
\* (no gauges and a null or empty grid among the cases) the composite peak is 0.
C12_DegradedInputsYieldZeros ==
  (trace.kind = "estimated" /\ SubIdsOf(trace.basinId) # {}) =>
    /\ ~trace.threw
    /\ \A id \in SubIdsOf(trace.basinId) :
         NoData(trace.estimate[id]) =>
           /\ trace.estimate[id].precip = 0
           /\ trace.estimate[id].intensity = 0
           /\ trace.estimate[id].method = "no_data"
    /\ (\A id \in SubIdsOf(trace.basinId) : NoData(trace.estimate[id])) =>
         /\ trace.result.peakFlow = 0
         /\ PeakOf(trace.result.compositeHydrograph, 1) = 0

C12_Witness ==
  /\ trace.kind = "estimated"
  /\ trace.basinId = "segura"
  /\ trace.stations = <<>>
  /\ RadarGrids[trace.grid] = Array(<<>>)
  /\ trace.estimate["seg_alto"].method = "no_data"
  /\ trace.result.peakFlow = 0

(***************************************************************************)
(* The hydrology engine on its own: calculateBasinDistributed applied to a *)
(* two-subcatchment rambla whose upper subcatchment, rainfall and routing  *)
(* are drawn from small sets.  The routing values include ones outside     *)
(* their physical ranges (K <= 0, X outside [0, 0.5], reaches <= 0), which *)
(* muskingumRouting accepts.                                               *)
(***************************************************************************)
\* A subcatchment of 40 km2 with the given tc and cn.
EngineSub(tc, cn) == [id |-> "upper", area |-> 40, cn |-> cn, slope |-> 5, tc |-> tc]

\* The routingToOutlet objects the upper subcatchment is given.
EngineRoutings ==
  [K : {-50, -14, 0, 25, 100}, X : {-20, 0, 10, 50, 90}, reaches : {-1, 0, 1, 2}]

\* The upper subcatchments: without routingToOutlet, and with each routing.
EngineSubs ==
  LET plain == {EngineSub(tc, cn) : tc \in {20, 100}, cn \in {60, 100}}
  IN plain \cup {Put(s, "routingToOutlet", r) : s \in plain, r \in EngineRoutings}

\* The lower subcatchment, at the outlet.
LowerSub == [id |-> "lower", area |-> 60, cn |-> 80, slope |-> 3, tc |-> 150]

\* The rambla with the given upper subcatchment.
EngineBasin(sub) ==
  [id |-> "rambla", area |-> 100, cn |-> 75, subcatchments |-> <<sub, LowerSub>>]

\* Local rainfall of the upper and of the lower subcatchment, in tenths of a mm.
UpperRain == {0, 300, 1200}
LowerRain == {0, 300}

\* The server's state left as loaded while a function is applied on its own.
Idle ==
  /\ basins = LoadBasins(Catalogue)
  /\ stations = NoStations
  /\ alerts = <<>>
  /\ lastUpdate = 0
  /\ radarData = Null
  /\ radarGrid = Null
  /\ history = <<>>
  /\ cycles = <<>>
  /\ clock = 0
  /\ started = 0
  /\ apiKey = FALSE
  /\ listening = FALSE
  /\ radarStarted = 0

InitEngine ==
  /\ Idle
  /\ \E sub \in EngineSubs, p \in UpperRain, q \in LowerRain :
       trace = [kind |-> "input", sub |-> sub, upper |-> p, lower |-> q]

\* What one run of the engine leaves: the per-subcatchment results of the first
\* loop and the basin result built from them.
EngineOutcome(input, basin, subResults) ==
  [kind |-> "computed", sub |-> input.sub, upper |-> input.upper, lower |-> input.lower,
   subResults |-> subResults, result |-> DistributedResult(basin, subResults, 0)]

\* engine.calculateBasinDistributed(basin, subcatchmentPrecip)
ApplyEngine ==
  /\ trace.kind = "input"
  /\ trace' = EngineOutcome(trace, EngineBasin(trace.sub),
                SubResults(<<trace.sub, LowerSub>>,
                           [upper |-> [precip |-> trace.upper, intensity |-> 0],
                            lower |-> [precip |-> trace.lower, intensity |-> 0]], 1, <<>>))
  /\ UNCHANGED <<basins, stations, alerts, lastUpdate, radarData, radarGrid, history,
                 cycles, clock, started, apiKey, listening, radarStarted>>

SpecEngine == InitEngine /\ [][ApplyEngine]_vars

NonNegative(h) == \A i \in 1..Len(h) : h[i].flow >= 0

\* C13: every flow sample the hydrology engine produces is non-negative: every
\* sample of each subcatchment's Clark hydrograph, of its Muskingum-routed
\* hydrograph (whatever K, X and reaches are) and of the composite outlet
\* hydrograph has flow >= 0.
C13_FlowsNonNegative ==
  trace.kind = "computed" =>
    /\ \A k \in 1..Len(trace.subResults) :
         /\ NonNegative(trace.subResults[k].hydrograph)
         /\ NonNegative(trace.subResults[k].routedHydrograph)
    /\ NonNegative(trace.result.compositeHydrograph)

\* A storm routed with X = 0.9, where C0 is negative and the clamp is what keeps
\* the rising limb at 0, superposed with a wet lower subcatchment.
C13_Witness ==
  /\ trace.kind = "computed"
  /\ "routingToOutlet" \in DOMAIN trace.sub
  /\ trace.sub.routingToOutlet = [K |-> 100, X |-> 90, reaches |-> 2]
  /\ trace.upper = 1200 /\ trace.lower = 300
  /\ PeakOf(trace.subResults[1].routedHydrograph, 1) > 0
  /\ trace.subResults[1].routedHydrograph[2].flow = 0
  /\ PeakOf(trace.result.compositeHydrograph, 1) > 0

(***************************************************************************)
(* muskingumRouting on its own: an inflow hydrograph of 41 samples at      *)
(* dt = 0.25 h and routing parameters within their valid ranges (K > 0,    *)
(* X in [0, 0.5], reaches >= 1) are drawn, and the function is applied.    *)
(***************************************************************************)
\* The hydrograph [{ time: i * dt, flow }] of a list of flows.
Hydrograph(flows) == [i \in 1..Len(flows) |-> [time |-> (i - 1) * Dt, flow |-> flows[i]]]

\* 100 m3/s for one step, then zero for 40 steps.
PulseInflow == Hydrograph([i \in 1..41 |-> IF i = 1 THEN 10000 ELSE 0])

\* The inflows: the pulse; a plateau of 100 m3/s that starts and ends abruptly; a
\* triangle that rises to 100 m3/s and recedes; and the Clark hydrograph of a
\* subcatchment of 40 km2 with tc = 0.5 h under 30 mm of effective rainfall.
Inflows ==
  << PulseInflow,
     Hydrograph([i \in 1..41 |-> IF i \in 2..20 THEN 10000 ELSE 0]),
     Hydrograph([i \in 1..41 |-> IF i <= 11 THEN 1000 * (i - 1) ELSE Max(0, 10000 - 500 * (i - 11))]),
     ClarkUnitHydrograph(EngineSub(50, 100), 3000, Dt) >>

\* Routing parameters within their valid ranges.
ValidRoutings == [K : {10, 25, 100, 200}, X : {0, 10, 20, 50}, reaches : {1, 2, 3}]

InitRouting ==
  /\ Idle
  /\ \E h \in 1..Len(Inflows), r \in ValidRoutings :
       trace = [kind |-> "input", inflow |-> h, routing |-> r]

\* muskingumRouting(hydrograph, routing, dt)
ApplyRouting ==
  /\ trace.kind = "input"
  /\ trace' = [kind |-> "routed", inflow |-> trace.inflow, routing |-> trace.routing,
               routed |-> MuskingumRouting(Inflows[trace.inflow], trace.routing, Dt)]
  /\ UNCHANGED <<basins, stations, alerts, lastUpdate, radarData, radarGrid, history,
                 cycles, clock, started, apiKey, listening, radarStarted>>

SpecRouting == InitRouting /\ [][ApplyRouting]_vars

RECURSIVE PeakIndex(_, _, _)
PeakIndex(h, peak, i) ==
  IF i > Len(h) THEN 0 ELSE IF h[i].flow = peak THEN i - 1 ELSE PeakIndex(h, peak, i + 1)

\* The sum of the flows of a hydrograph from sample i on.
RECURSIVE Volume(_, _)
Volume(h, i) == IF i > Len(h) THEN 0 ELSE h[i].flow + Volume(h, i + 1)

\* C15: routing the pulse of 100 m3/s for one step followed by 40 zero steps
\* with K = 1 h, X = 0.1 and 2 reaches gives an outflow whose peak is strictly
\* below 100 m3/s, whose peak is at least one step later than the inflow's, and
\* whose volume (the sum of the flows) is the inflow's to within 0.1%.
C15_PulseAttenuatedShiftedConserved ==
  (/\ trace.kind = "routed"
   /\ Inflows[trace.inflow] = PulseInflow
   /\ trace.routing = [K |-> 100, X |-> 10, reaches |-> 2]) =>
    LET out == trace.routed
        volIn == Volume(PulseInflow, 1)
        volOut == Volume(out, 1)
    IN /\ PeakOf(out, 1) < 10000
       /\ PeakIndex(out, PeakOf(out, 1), 1) >= PeakIndex(PulseInflow, 10000, 1) + 1
       /\ 1000 * (volOut - volIn) <= volIn
       /\ 1000 * (volIn - volOut) <= volIn

(***************************************************************************)
(* scsCurveNumber on its own, in rounded binary arithmetic.  A JS number   *)
(* is an IEEE-754 double: every operation returns the representable value  *)
(* nearest to the exact result, ties going to the even significand.  The   *)
(* model keeps that rule with a significand of SignificandBits bits        *)
(* instead of 53, so that exact products stay within 32-bit integers.      *)
(* A value is [m, e], standing for m * 2^e, with m = 0 or                  *)
(* 2^(SignificandBits-1) <= m < 2^SignificandBits.  scsCurveNumber only    *)
(* forms non-negative values for cn <= 100, so there is no sign.           *)
(***************************************************************************)
SignificandBits == 12

RECURSIVE Pow2(_)
Pow2(k) == IF k <= 0 THEN 1 ELSE 2 * Pow2(k - 1)

\* The number of bits of n > 0.
RECURSIVE BitLen(_)
BitLen(n) == IF n <= 1 THEN 1 ELSE 1 + BitLen(n \div 2)

FZero == [m |-> 0, e |-> 0]

\* The shift-and-round step of FRound: n has more than SignificandBits bits.
FRoundDown(n, e, sticky, shift) ==
  LET kept == n \div Pow2(shift)
      low == n % Pow2(shift)
      half == Pow2(shift - 1)
      up == low > half \/ (low = half /\ (sticky \/ kept % 2 = 1))
      m == IF up THEN kept + 1 ELSE kept
  IN IF m = Pow2(SignificandBits) THEN [m |-> Pow2(SignificandBits - 1), e |-> e + shift + 1]
     ELSE [m |-> m, e |-> e + shift]

\* Rounding to nearest, ties to even, of the exact value (n + s) * 2^e, where
\* 0 < s < 1 if sticky and s = 0 otherwise.
FRound(n, e, sticky) ==
  IF n = 0 THEN FZero
  ELSE IF BitLen(n) <= SignificandBits
    THEN [m |-> n * Pow2(SignificandBits - BitLen(n)), e |-> e - (SignificandBits - BitLen(n))]
  ELSE FRoundDown(n, e, sticky, BitLen(n) - SignificandBits)

\* A numeric literal or argument with an integer value.
FromInt(n) == FRound(n, 0, FALSE)

\* a * b
FMul(a, b) == IF a.m = 0 \/ b.m = 0 THEN FZero ELSE FRound(a.m * b.m, a.e + b.e, FALSE)

\* a / b for b > 0
FDiv(a, b) ==
  LET n == a.m * Pow2(SignificandBits + 2)
  IN IF a.m = 0 THEN FZero
     ELSE FRound(n \div b.m, a.e - b.e - (SignificandBits + 2), n % b.m # 0)

\* hi + sign * lo for hi >= lo >= 0; an operand below an eighth of the other's
\* last place does not change the rounded result.
FSum(hi, lo, sign) ==
  IF lo.m = 0 \/ hi.e - lo.e > SignificandBits + 3 THEN hi
  ELSE FRound(hi.m * Pow2(hi.e - lo.e) + sign * lo.m, lo.e, FALSE)

\* a <= b
FLeq(a, b) == a.m = 0 \/ (b.m # 0 /\ (a.e < b.e \/ (a.e = b.e /\ a.m <= b.m)))

\* a + b
FAdd(a, b) == IF FLeq(b, a) THEN FSum(a, b, 1) ELSE FSum(b, a, 1)

\* a - b for a >= b
FSub(a, b) == FSum(a, b, -1)

\* scsCurveNumber(P, cn) for 0 < cn <= 100; the literals 0.2 and 0.8 are the
\* roundings of 2/10 and 8/10, and Math.pow(x, 2) is the rounded square.
ScsCurveNumberRounded(P, cn) ==
  LET S == FSub(FDiv(FromInt(25400), FromInt(cn)), FromInt(254))
      Ia == FMul(FDiv(FromInt(2), FromInt(10)), S)
  IN IF FLeq(P, Ia) THEN FZero
     ELSE FDiv(FMul(FSub(P, Ia), FSub(P, Ia)), FAdd(P, FMul(FDiv(FromInt(8), FromInt(10)), S)))

\* Gross rainfall in tenths of a mm: 0 to 6 mm by tenths, and larger storms.
RainTenths == 0..60 \cup {100, 127, 250, 508, 1000, 2000}

\* Curve numbers of the range [30, 100].
CurveNumbers == {30, 50, 75, 80, 99, 100}

InitScs ==
  /\ Idle
  /\ \E k \in RainTenths, cn \in CurveNumbers :
       trace = [kind |-> "input", P |-> FDiv(FromInt(k), FromInt(10)), cn |-> cn]

\* scsCurveNumber(P, cn), together with the Ia it compares P with.
ApplyScs ==
  /\ trace.kind = "input"
  /\ trace' = [kind |-> "scs", P |-> trace.P, cn |-> trace.cn,
               Ia |-> FMul(FDiv(FromInt(2), FromInt(10)),
                           FSub(FDiv(FromInt(25400), FromInt(trace.cn)), FromInt(254))),
               Pe |-> ScsCurveNumberRounded(trace.P, trace.cn)]
  /\ UNCHANGED <<basins, stations, alerts, lastUpdate, radarData, radarGrid, history,
                 cycles, clock, started, apiKey, listening, radarStarted>>

SpecScs == InitScs /\ [][ApplyScs]_vars

\* C16: for every gross rainfall P >= 0 and every CN in [30, 100],
\* scsCurveNumber returns Pe with 0 <= Pe <= P, and exactly 0 whenever
\* P <= 0.2 * S with S = 25400 / CN - 254.
C16_ScsBounds ==
  trace.kind = "scs" =>
    /\ FLeq(FZero, trace.Pe)
    /\ FLeq(trace.Pe, trace.P)
    /\ FLeq(trace.P, trace.Ia) => trace.Pe = FZero

(***************************************************************************)
(* The pipeline run repeatedly on one input snapshot: for every basin      *)
(* estimateSubcatchmentPrecip and calculateBasinDistributed, then          *)
(* AlertEngine.evaluate, on the same station list and radar grid.  The     *)
(* results carry new Date(); the wall clock may or may not have advanced   *)
(* between two runs.                                                       *)
(***************************************************************************)
MaxRuns == 2
MaxTicks == 2

InitPipeline ==
  /\ Idle
  /\ \E sd \in GaugeLists, g \in 1..Len(RadarGrids) :
       trace = [kind |-> "input", stations |-> sd, grid |-> g, outputs |-> <<>>]

\* What a run returns: each basin's spatial estimate and hydrological result,
\* and the alert records.
PipelineOutput(bs, ev) ==
  [estimates |-> [i \in 1..Len(bs) |-> bs[i].spatialEstimate],
   results |-> [i \in 1..Len(bs) |-> bs[i].hydroResult],
   alerts |-> ev.alerts]

\* The assignments of a run, given the basins its loop leaves and the outcome
\* of evaluate.
FinishRun(bs, ev) ==
  /\ basins' = bs
  /\ alerts' = ev.alerts
  /\ history' = ev.history
  /\ trace' = [trace EXCEPT !.kind = "run", !.outputs = Append(@, PipelineOutput(bs, ev))]

\* alertEngine.evaluate(state.basins) after the loop.
RunAfter(bs) == FinishRun(bs, Evaluate(bs, history, clock))

\* One run of the pipeline on the snapshot; the basins are the objects the run
\* before it wrote its results to.
RunPipeline ==
  /\ Len(trace.outputs) < MaxRuns
  /\ RunAfter(ProcessBasins(basins, 1, trace.stations, RadarGrids[trace.grid], clock).basins)
  /\ UNCHANGED <<stations, lastUpdate, radarData, radarGrid, cycles, clock, started,
                 apiKey, listening, radarStarted>>

\* Time passes: new Date() returns a later instant.
Tick ==
  /\ clock < MaxTicks
  /\ clock' = clock + 1
  /\ UNCHANGED <<basins, stations, alerts, lastUpdate, radarData, radarGrid, history,
                 cycles, started, apiKey, listening, radarStarted, trace>>

NextPipeline == RunPipeline \/ Tick

SpecPipeline == InitPipeline /\ [][NextPipeline]_vars

\* C17: the pipeline is deterministic and pure: run twice on the same input
\* snapshot it yields results identical in every field of the basin results and
\* of the alert records, the second run not depending on the first having
\* happened.
C17_RunsIdentical ==
  Len(trace.outputs) = 2 => trace.outputs[1] = trace.outputs[2]

(***************************************************************************)
(* The update cycle fed by the scraper.  A fetch is what the provinces     *)
(* answer: for each province either a failed request or the list of its    *)
(* stations as parsed, a latitude or longitude of 0 standing for a         *)
(* coordinate that is 0 or does not parse (parseFloat(...) || 0).          *)
(***************************************************************************)
Province(stationList) == [failed |-> FALSE, stations |-> stationList]
FailedProvince == [failed |-> TRUE, stations |-> <<>>]

\* The answers of the provinces, in the order of PROVINCES: every request
\* failing; a wet fetch with a station without latitude; a fetch in which two
\* provinces report a station of the same name, with a station without
\* longitude; every gauge dry; one province only, dry at s1 and in a storm at s2.
RawFetches ==
  << << FailedProvince, FailedProvince >>,
     << Province(<< Station("s1", 2, 2, 40 * Scale, 20 * Scale), Station("s0", 0, 2, 90 * Scale, 0) >>),
        Province(<< Station("s3", 81, 1, 80 * Scale, 40 * Scale) >>) >>,
     << Province(<< Station("s1", 2, 2, 10 * Scale, 0) >>),
        Province(<< Station("s9", 42, 0, 70 * Scale, 0), Station("s1", 2, 6, 120 * Scale, 60 * Scale) >>) >>,
     << Province(<< Station("s1", 2, 2, 0, 0), Station("s2", 42, 2, 0, 0) >>),
        Province(<< Station("s3", 81, 1, 0, 0) >>) >>,
     << FailedProvince,
        Province(<< Station("s1", 2, 2, 0, 0), Station("s2", 42, 2, 50 * Scale, 30 * Scale) >>) >> >>

\* fetchProvince(code): [] for a failed request, else the stations with
\* .filter(s => s.lat !== 0 && s.lon !== 0)
RECURSIVE FetchProvince(_, _)
FetchProvince(province, i) ==
  IF province.failed \/ i > Len(province.stations) THEN <<>>
  ELSE (IF province.stations[i].lat # 0 /\ province.stations[i].lon # 0
          THEN << province.stations[i] >> ELSE <<>>) \o FetchProvince(province, i + 1)

\* fetchAllStations(): results.filter(fulfilled).flatMap(r => r.value)
RECURSIVE FetchAllStations(_, _)
FetchAllStations(raw, c) ==
  IF c > Len(raw) THEN <<>> ELSE FetchProvince(raw[c], 1) \o FetchAllStations(raw, c + 1)

InitStations ==
  /\ Idle
  /\ trace = [kind |-> "init", seq |-> 0, fetched |-> 0, stationData |-> <<>>,
              threw |-> 0, broadcast |-> FALSE]

\* updateCycle() from the await on, the fetch having resolved.
ResumeFetch ==
  \E k \in 1..Len(cycles), f \in 1..Len(RawFetches) :
    ResumeCycle(k, FetchAllStations(RawFetches[f], 1))

NextStations == Listen \/ CronUpdateCycle \/ ResumeFetch

SpecStations == InitStations /\ [][NextStations]_vars

\* The index of the last observation of a station id in a fetch (0 for none).
RECURSIVE LastIndexOf(_, _, _)
LastIndexOf(id, stationData, i) ==
  IF i = 0 THEN 0 ELSE IF stationData[i].id = id THEN i ELSE LastIndexOf(id, stationData, i - 1)

FetchedIds(stationData) == {stationData[i].id : i \in 1..Len(stationData)}

\* C18: after any sequence of update cycles the stations map holds one
\* observation per station id, which is the one of the most recent fetch that
\* reported the id (within a fetch, the last occurrence of the id), and no
\* station with a zero latitude or longitude is ever in the map.
C18_LatestObservationWins ==
  /\ [](\A id \in DOMAIN stations :
          stations[id].id = id /\ stations[id].lat # 0 /\ stations[id].lon # 0)
  /\ [][CycleStep =>
         /\ DOMAIN stations' = DOMAIN stations \cup FetchedIds(trace'.stationData)
         /\ \A id \in DOMAIN stations' :
              LET last == LastIndexOf(id, trace'.stationData, Len(trace'.stationData))
              IN stations'[id] = IF last > 0 THEN trace'.stationData[last] ELSE stations[id]]_vars

\* The fetch with the duplicated name s1 has been applied after the fetch that
\* had s3 and the station without latitude: s1 is the later of the two
\* observations of the later fetch, s3 is kept from the earlier one.
C18_Witness ==
  /\ trace.kind = "cycle"
  /\ trace.stationData = FetchAllStations(RawFetches[3], 1)
  /\ Len(trace.stationData) = 2
  /\ DOMAIN stations = {"s1", "s3"}
  /\ stations["s1"].precipitation = 120 * Scale
  /\ stations["s3"].precipitation = 80 * Scale

\* The gauges of a fetch that estimateSubcatchmentPrecip takes into account for
\* a basin: those within the basin's bounds widened by the margin.
GaugesInRange(basin, stationData) ==
  {k \in 1..Len(stationData) : InBounds(stationData[k], basin.bounds, BasinMargin)}

DryBasin(basin, stationData) ==
  /\ Len(SubcatchmentsOf(basin)) >= 1
  /\ \A k \in GaugesInRange(basin, stationData) :
       stationData[k].precipitation = 0 /\ stationData[k].intensity = 0

\* C19: dry basin: for a basin with at least one subcatchment where every gauge
\* in range reports precipitation 0 and intensity 0, and no radar grid, a cycle
\* produces a composite peak flow of 0, emits no alert for the basin and tags the
\* spatial estimate with the method distributed_idw.
C19_DryBasin ==
  (trace.kind = "cycle" /\ radarGrid = Null) =>
    \A i \in 1..Len(basins) :
      DryBasin(basins[i], trace.stationData) =>
        /\ HasHydroResult(basins[i])
        /\ basins[i].hydroResult.peakFlow = 0
        /\ PeakOf(basins[i].hydroResult.compositeHydrograph, 1) = 0
        /\ basins[i].currentFlow = 0
        /\ \A k \in 1..Len(alerts) : alerts[k].basinId # basins[i].id
        /\ basins[i].spatialEstimate.method = "distributed_idw"

\* A cycle in which the gauge of segura reports 0 while mula is in a storm:
\* segura is dry and not in alert, mula is in alert.
C19_Witness ==
  /\ trace.kind = "cycle"
  /\ GaugesInRange(basins[1], trace.stationData) # {}
  /\ DryBasin(basins[1], trace.stationData)
  /\ basins[1].spatialEstimate.stationsUsed >= 1
  /\ basins[1].hydroResult.peakFlow = 0
  /\ \E k \in 1..Len(alerts) : alerts[k].basinId = basins[2].id

\* The upper subcatchment of the engine's input has parameters in their valid
\* ranges: area > 0, tc > 0, CN in [30, 100], and no routing or one with K > 0,
\* X in [0, 0.5] and reaches >= 1.
ValidSub(sub) ==
  /\ sub.area > 0 /\ sub.tc > 0 /\ sub.cn >= 30 /\ sub.cn <= 100
  /\ "routingToOutlet" \in DOMAIN sub =>
       /\ sub.routingToOutlet.K > 0
       /\ sub.routingToOutlet.X >= 0 /\ sub.routingToOutlet.X <= 50
       /\ sub.routingToOutlet.reaches >= 1

\* C20: for every valid basin with subcatchments in which at least one
\* subcatchment has effective rainfall Pe > 0, the peak flow that
\* calculateBasinDistributed reports is strictly greater than 0.
C20_RunoffGivesFlow ==
  (/\ trace.kind = "computed"
   /\ ValidSub(trace.sub)
   /\ \E k \in 1..Len(trace.subResults) : trace.subResults[k].effectiveRainfall > 0) =>
    trace.result.peakFlow > 0

(***************************************************************************)
(* Radar and the update cycle (SpecServer).  trace.kind is "radar" after   *)
(* updateRadar has assigned state.radarData and broadcast it, "radar_off"  *)
(* after updateRadar has returned for want of an API key.                  *)
(***************************************************************************)
\* The basin's estimate, if it has one, used the gauges only.
GaugeOnly(basin) ==
  basin.spatialEstimate # Null =>
    /\ basin.spatialEstimate.method # "distributed_fusion"
    /\ basin.spatialEstimate.method # "radar_station_fusion"
    /\ \A k \in 1..Len(SubcatchmentsOf(basin)) :
         LET entry == basin.spatialEstimate[SubcatchmentsOf(basin)[k].id]
         IN entry.method \notin {"radar_station_fusion", "radar_only"} /\ entry.radarPixels = 0

\* C21: when the AEMET API key is unset, radar is disabled: updateRadar never
\* changes the radar part of the shared state and never broadcasts a radar
\* message, and every update cycle processes every basin gauge-only.
C21_NoKeyNoRadar ==
  ~apiKey =>
    /\ radarData = Null
    /\ radarGrid = Null
    /\ trace.kind # "radar"
    /\ \A k \in 1..Len(cycles) : cycles[k].kind # "radar"
    /\ \A i \in 1..Len(basins) : GaugeOnly(basins[i])

\* Without a key, updateRadar has just returned after a cycle that used a gauge.
C21_Witness ==
  /\ ~apiKey
  /\ trace.kind = "radar_off"
  /\ lastUpdate > 0
  /\ \E i \in 1..Len(basins) :
       basins[i].spatialEstimate # Null /\ basins[i].spatialEstimate.stationsUsed >= 1

\* The fields of a basin object that an update cycle assigns.
ResultFields == {"currentFlow", "precipitation", "intensity", "hydroResult", "spatialEstimate"}

\* The basin object without them: what was loaded from the catalogue.
CatalogueFields(basin) == [f \in DOMAIN basin \ ResultFields |-> basin[f]]

\* C22: the basin catalogue is immutable after loading: no step of the server
\* (update cycle, radar update, read) changes a basin's catalogue fields (id,
\* name, type, area, bounds, thresholds, the ordered subcatchments with their
\* parameters) or adds or removes a basin; only the result fields currentFlow,
\* precipitation, intensity, hydroResult and spatialEstimate change.
C22_CatalogueImmutable ==
  [][/\ Len(basins') = Len(basins)
     /\ \A i \in 1..Len(basins) :
          CatalogueFields(basins'[i]) = CatalogueFields(basins[i])]_vars

\* Two cycles have written results: the second one a storm over segura, whose
\* catalogue fields are still those of the catalogue.
C22_Witness ==
  /\ trace.kind = "cycle"
  /\ clock = 2
  /\ basins[1].currentFlow > 0
  /\ basins[1].hydroResult.timestamp = 2
  /\ \A f \in DOMAIN Catalogue[1] : basins[1][f] = Catalogue[1][f]

(***************************************************************************)
(* The choice of method (SpecEstimate).  What remains for a region is      *)
(* counted here from the inputs of the call, not read from the estimate.   *)
(***************************************************************************)
\* The number of elements of xs that are in the bounds widened by the margin.
RECURSIVE CountIn(_, _, _, _)
CountIn(xs, bounds, margin, i) ==
  IF i > Len(xs) THEN 0
  ELSE (IF InBounds(xs[i], bounds, margin) THEN 1 ELSE 0) + CountIn(xs, bounds, margin, i + 1)

\* The online gauges of the list.
RECURSIVE OnlineOf(_, _)
OnlineOf(sd, i) ==
  IF i > Len(sd) THEN <<>>
  ELSE (IF sd[i].online THEN <<sd[i]>> ELSE <<>>) \o OnlineOf(sd, i + 1)

\* The radar pixels of the grid of the call.
PixelsOf(g) == IF RadarGrids[g] = Null THEN <<>> ELSE RadarGrids[g].items

\* The subcatchments' bounds lie within their basin's, so the basin's filter
\* removes nothing that the subcatchment's filter would keep.
GaugesLeft(sub, sd) == CountIn(OnlineOf(sd, 1), sub.bounds, SubMargin, 1)
PixelsLeft(sub, g) == CountIn(PixelsOf(g), sub.bounds, 0, 1)

MethodByPresence(gauges, pixels) ==
  IF gauges > 0 /\ pixels > 0 THEN "radar_station_fusion"
  ELSE IF gauges > 0 THEN "idw"
  ELSE IF pixels > 0 THEN "radar_only"
  ELSE "no_data"

\* C23: for each subcatchment, after filtering gauges and radar pixels to it,
\* estimateSubcatchmentPrecip selects the method by presence only: fusion iff
\* at least one gauge and one radar pixel remain, gauge IDW iff gauges remain
\* and no pixel, radar_only iff pixels remain and no gauge, no_data iff neither.
C23_MethodByPresence ==
  (trace.kind = "estimated" /\ ~trace.threw) =>
    LET subs == SubcatchmentsOf(basins[BasinIndex(trace.basinId)])
    IN \A k \in 1..Len(subs) :
         trace.estimate[subs[k].id].method =
           MethodByPresence(GaugesLeft(subs[k], trace.stations), PixelsLeft(subs[k], trace.grid))

\* One call in which the upper subcatchment of segura, with a gauge and a radar
\* pixel, is estimated by fusion and the lower one, which the same gauge is
\* near enough to but which has no pixel, by gauge interpolation.
C23_Witness ==
  /\ trace.kind = "estimated"
  /\ trace.basinId = "segura"
  /\ trace.estimate["seg_alto"].method = "radar_station_fusion"
  /\ trace.estimate["seg_bajo"].method = "idw"
  /\ trace.estimate["seg_alto"].precip > 0

(***************************************************************************)
(* The composite hydrograph and its peak (SpecEngine, whose basin has the  *)
(* two subcatchments upper and lower).                                     *)
(***************************************************************************)
\* The time of the last sample of a routed hydrograph, 0 for an empty one.
LastTimeOf(rh) == IF Len(rh) > 0 THEN rh[Len(rh)].time ELSE 0

\* routed[i].flow, counting 0 when the hydrograph has no index i (from 0).
FlowAt(rh, i) == IF i + 1 <= Len(rh) THEN rh[i + 1].flow ELSE 0

\* C24: the composite hydrograph has one sample for each index
\* i = 0 .. ceil(T_max / dt) with time i * dt, T_max being the largest
\* last-sample time over the routed subcatchment hydrographs, and its flow at i
\* is the sum over the subcatchments of routed[i].flow, counting 0 for a
\* subcatchment whose routed hydrograph has no index i.
C24_CompositeIsSum ==
  trace.kind = "computed" =>
    LET upper == trace.subResults[1].routedHydrograph
        lower == trace.subResults[2].routedHydrograph
        composite == trace.result.compositeHydrograph
        last == CeilDiv(Max(LastTimeOf(upper), LastTimeOf(lower)), Dt)
    IN /\ Len(composite) = last + 1
       /\ \A i \in 0..last :
            /\ composite[i + 1].time = i * Dt
            /\ composite[i + 1].flow = FlowAt(upper, i) + FlowAt(lower, i)

\* Both subcatchments are wet, the upper one is routed through two reaches and
\* its hydrograph is shorter than the lower one's: the tail of the composite
\* is the lower subcatchment alone.
C24_Witness ==
  /\ trace.kind = "computed"
  /\ "routingToOutlet" \in DOMAIN trace.sub
  /\ trace.sub.routingToOutlet = [K |-> 100, X |-> 10, reaches |-> 2]
  /\ Len(trace.subResults[1].routedHydrograph) > 0
  /\ Len(trace.subResults[1].routedHydrograph) < Len(trace.subResults[2].routedHydrograph)
  /\ Len(trace.result.compositeHydrograph) = Len(trace.subResults[2].routedHydrograph)
  /\ trace.result.compositeHydrograph[3].flow >
       trace.subResults[2].routedHydrograph[3].flow
  /\ trace.subResults[2].routedHydrograph[3].flow > 0

\* The largest flow of a hydrograph and the first index that has it.
IsMaxFlow(h, m) ==
  /\ \A i \in 1..Len(h) : h[i].flow <= m
  /\ \E i \in 1..Len(h) : h[i].flow = m

FirstWith(h, m, i) == h[i].flow = m /\ \A j \in 1..(i - 1) : h[j].flow # m

ReferenceRouting(hydrograph, routing) ==
  LET flows == [i \in 1..Len(hydrograph) |-> hydrograph[i].flow]
      out == RouteReaches(flows, routing.reaches, routing.K, routing.X, Dt)
  IN [i \in 1..Len(hydrograph) |-> [time |-> hydrograph[i].time, flow |-> out[i]]]

\* C26: for every inflow hydrograph and every routing with K > 0, X in
\* [0, 0.5] (X = 0 included) and reaches >= 1, muskingumRouting returns the
\* reference recurrence applied reaches times with the coefficients computed
\* from the supplied K and X, with the same number of samples and the same
\* times as the inflow.
C26_MatchesReference ==
  trace.kind = "routed" =>
    trace.routed = ReferenceRouting(Inflows[trace.inflow], trace.routing)

(***************************************************************************)
(* The guard on the Muskingum denominator (SpecEngine, whose routings      *)
(* include negative K).                                                    *)
(***************************************************************************)
\* D = K - K*X + 0.5*dt of the supplied K and X, in units of 1e-4 h.
SuppliedDenominator(routing) == 100 * routing.K - routing.K * routing.X + 50 * Dt

\* C27: for routing parameters with K # 0 whose D = K - K*X + 0.5*dt is not
\* positive, muskingumRouting skips every reach without an error: the routed
\* hydrograph has the flows, the times and the length of the inflow
\* hydrograph, and the basin computation goes on to its result.
C27_GuardSkipsReaches ==
  (/\ trace.kind = "computed"
   /\ "routingToOutlet" \in DOMAIN trace.sub
   /\ trace.sub.routingToOutlet.K # 0
   /\ SuppliedDenominator(trace.sub.routingToOutlet) <= 0) =>
    /\ trace.subResults[1].routedHydrograph = trace.subResults[1].hydrograph
    /\ trace.result.method = "semi_distributed"

(***************************************************************************)
(* idw and idwFromGrid on their own (SpecIdw): a target point and a list   *)
(* of up to MaxSamples samples are drawn, and both functions are applied   *)
(* with the field "precipitation".                                         *)
(***************************************************************************)
MaxSamples == 3

\* The sites of the samples: two target points, a site 10 units away, one just
\* inside the search radius of (0, 0) and one just outside it.
SampleSites == {<<0, 0>>, <<3, 4>>, <<10, 0>>, <<44, 9>>, <<45, 0>>}

\* The samples: a light or a heavy reading at each site, and one sample at
\* (3, 4) that has no reading.
Samples ==
  {[lat |-> p[1], lon |-> p[2], precipitation |-> v] : p \in SampleSites, v \in {10, 50}}
    \cup {[lat |-> 3, lon |-> 4]}

SampleLists == UNION {[1..n -> Samples] : n \in 0..MaxSamples}

InitIdw ==
  /\ Idle
  /\ \E p \in {<<0, 0>>, <<3, 4>>}, l \in SampleLists :
       trace = [kind |-> "target", lat |-> p[1], lon |-> p[2], samples |-> l]

\* idw(lat, lon, stations, 'precipitation') and idwFromGrid(lat, lon, grid,
\* 'precipitation') on the same list.
ApplyIdw ==
  /\ trace.kind = "target"
  /\ trace' = [kind |-> "interpolated", lat |-> trace.lat, lon |-> trace.lon,
               samples |-> trace.samples,
               idw |-> Idw(trace.lat, trace.lon, trace.samples, "precipitation"),
               idwFromGrid |-> IdwFromGrid(trace.lat, trace.lon, trace.samples,
                                           "precipitation")]
  /\ UNCHANGED <<basins, stations, alerts, lastUpdate, radarData, radarGrid, history,
                 cycles, clock, started, apiKey, listening, radarStarted>>

SpecIdw == InitIdw /\ [][ApplyIdw]_vars

\* The squared distance of a sample from the target of the trace.
Distance2(s) == HaversineDistance2(trace.lat, trace.lon, s.lat, s.lon)

\* The inverse-square-distance weighted mean of the readings of a list of
\* samples, none of them at the target.
WeightedMean(within) ==
  LET w == [k \in 1..Len(within) |-> WeightUnit \div Distance2(within[k])]
      wv == [k \in 1..Len(within) |-> w[k] * NumOrZero(within[k], "precipitation")]
  IN RoundDiv(SumSeq(wv, 1), SumSeq(w, 1))

\* What the interpolation of the trace's samples at its target has to be.
IdwExpected(value) ==
  LET samples == trace.samples
      within == SelectSeq(samples, LAMBDA s : Distance2(s) <= SearchRadius2)
  IN IF \E i \in 1..Len(samples) : Distance2(samples[i]) = 0
       THEN \E i \in 1..Len(samples) :
              /\ Distance2(samples[i]) = 0
              /\ \A j \in 1..(i - 1) : Distance2(samples[j]) # 0
              /\ value = NumOrZero(samples[i], "precipitation")
       ELSE IF Len(within) = 0 THEN value = 0
       ELSE value = WeightedMean(within)

\* C28: for any target point and sample list, idw (and idwFromGrid) returns
\* the value of the first sample in iteration order that is closer than
\* 0.01 km if there is one, whatever was accumulated before it; otherwise the
\* inverse-square-distance weighted mean of exactly the samples within 50 km;
\* and 0 when no sample lies within 50 km.
C28_IdwValue ==
  trace.kind = "interpolated" =>
    IdwExpected(trace.idw) /\ IdwExpected(trace.idwFromGrid)

\* A heavy reading near the target is accumulated first, then come two samples
\* at the target: the first of them, the light one, is the result.
C28_Witness ==
  /\ trace.kind = "interpolated"
  /\ Len(trace.samples) = 3
  /\ Distance2(trace.samples[1]) = 25
  /\ NumOrZero(trace.samples[1], "precipitation") = 50
  /\ Distance2(trace.samples[2]) = 0
  /\ NumOrZero(trace.samples[2], "precipitation") = 10
  /\ Distance2(trace.samples[3]) = 0
  /\ NumOrZero(trace.samples[3], "precipitation") = 50
  /\ trace.idw = 10

(***************************************************************************)
(* The whole-basin estimate of a basin without subcatchments               *)
(* (SpecEstimate, basin adra).                                             *)
(***************************************************************************)
\* C29: for a basin with no subcatchments, estimateSubcatchmentPrecip makes a
\* single-region estimate over the whole basin by the degenerate-case rules:
\* fusion when gauges and radar pixels are both present, gauge IDW when there
\* is no radar, radar-only estimation when there are radar pixels but no
\* gauges, and zeros only when there is neither.
C29_LumpedByPresence ==
  (/\ trace.kind = "estimated"
   /\ ~trace.threw
   /\ Len(SubcatchmentsOf(basins[BasinIndex(trace.basinId)])) = 0) =>
    LET basin == basins[BasinIndex(trace.basinId)]
        gauges == CountIn(OnlineOf(trace.stations, 1), basin.bounds, BasinMargin, 1)
        pixels == CountIn(PixelsOf(trace.grid), basin.bounds, 0, 1)
    IN /\ trace.estimate.subcatchmentCount = 0
       /\ trace.estimate.stationsUsed = gauges
       /\ (gauges > 0 /\ pixels > 0) => trace.estimate.method = "radar_station_fusion"
       /\ (gauges > 0 /\ pixels = 0) => trace.estimate.method = "idw"
       /\ (gauges = 0 /\ pixels > 0) =>
            trace.estimate.method = "radar_only" /\ trace.estimate.mean > 0
       /\ (gauges = 0 /\ pixels = 0) =>
            trace.estimate.mean = 0 /\ trace.estimate.maxIntensity = 0

====
